---------------------------- MODULE Spec2Model ----------------------------
(***************************************************************************)
(* Flow/Numberlink solver (ksavill/flow-free-solver-v2).                   *)
(*                                                                         *)
(* The model covers the graph, the square space builder, the free-form     *)
(* JSON puzzle loader, the backtracking solver (solve_with_dfs) as a step  *)
(* machine with an explicit call stack, and the constraint solver          *)
(* (solve_with_z3) as the set of models of the constraints it builds.      *)
(*                                                                         *)
(* Python strings (node ids, tile ids, colours, tokens) are sequences of   *)
(* character codes, so that sorted() is the lexicographic order Python     *)
(* uses.  "A" is <<65>>, "0,1" is <<48,44,49>>, "1,1:h" is                 *)
(* <<49,44,49,58,104>>, "n1" is <<110,49>>.                                *)
(***************************************************************************)
EXTENDS Integers, Sequences, FiniteSets, TLC

---------------------------------------------------------------------------
(* Bounds of the model *)

\* number of nodes n1..nK of the enumerated free-form (JSON) puzzles
MaxNodes == 4

\* the distance witness ranges over -1 .. (number of nodes - 1 + DistSlack)
DistSlack == 0

\* the token grids handed to the space builders have at most MaxCells cells
MaxCells == 4

\* the Graph object is driven with MaxIds node ids (a, b, c, ...)
MaxIds == 3

\* the free line of a .flow text has at most MaxLineLen characters
MaxLineLen == 3

---------------------------------------------------------------------------
(* The state: one puzzle, one call of solve_with_dfs on it, then either a  *)
(* call of solve_with_z3 or a second call of solve_with_dfs on the same    *)
(* puzzle.                                                                 *)

VARIABLES
    puzzle,            \* the Puzzle handed to the solvers
    pc,                \* where the run stands
    assigned,          \* node -> colour or None
    tile_color_usage,  \* tile -> set of colours
    path_adj,          \* colour -> (node -> set of nodes), keys as in the dicts
    heads,             \* colour -> <<head 0, head 1>>
    done,              \* colour -> BOOLEAN
    steps,             \* the counter of search() entries
    stack,             \* the frames of the active search() calls, innermost last
    ret,               \* the value the last finished search() call returned
    dfs,               \* outcome of solve_with_dfs
    z3,                \* outcome of solve_with_z3
    timeout_ms,        \* the timeout_ms argument: None, or <<t>> for the number t
    calls,             \* how many calls of solve_with_dfs have begun
    first              \* outcome of the first call of solve_with_dfs, once a second began

\* The loaders (space builders, Puzzle.from_json, Puzzle.from_flow_text) and
\* the Graph class are exercised on their own, apart from the solvers.
VARIABLES
    input,             \* the argument handed to a loader
    output,            \* what the loader returned or raised
    graph,             \* a Graph object under add_node / add_edge / remove_edge
    last,              \* the last call on the Graph object and its outcome
    yielded,           \* what the last Graph.edges() iteration yielded
    readded            \* edges that add_edge was called on while already present

---------------------------------------------------------------------------
(* Strings *)

None == <<-1>>

Range(s) == {s[i] : i \in DOMAIN s}

RECURSIVE StrLess(_, _)
StrLess(a, b) ==
    IF a = <<>> THEN b # <<>>
    ELSE IF b = <<>> THEN FALSE
    ELSE IF Head(a) # Head(b) THEN Head(a) < Head(b)
    ELSE StrLess(Tail(a), Tail(b))

MinStr(S) == CHOOSE a \in S : \A b \in S \ {a} : StrLess(a, b)

\* sorted(S) for a set of strings
RECURSIVE sorted(_)
sorted(S) == IF S = {} THEN <<>> ELSE <<MinStr(S)>> \o sorted(S \ {MinStr(S)})

\* str(n) for a natural number
RECURSIVE str(_)
str(n) == IF n < 10 THEN <<48 + n>> ELSE str(n \div 10) \o <<48 + (n % 10)>>

\* the elements of S by increasing rank[x]
RECURSIVE SortByRank(_, _)
SortByRank(S, rank) ==
    IF S = {} THEN <<>>
    ELSE LET m == CHOOSE x \in S : \A y \in S : rank[x] <= rank[y]
         IN  <<m>> \o SortByRank(S \ {m}, rank)

RECURSIVE Concat(_)
Concat(ss) == IF ss = <<>> THEN <<>> ELSE Head(ss) \o Concat(Tail(ss))

---------------------------------------------------------------------------
(* graph.py *)

NoErr == "ok"

EmptyGraph == [nodes |-> <<>>, adj |-> [n \in {} |-> {}], err |-> NoErr]

add_node(g, id) ==
    IF g.err # NoErr THEN g
    ELSE IF id \in Range(g.nodes) THEN [g EXCEPT !.err = "ValueError: node exists"]
    ELSE [g EXCEPT !.nodes = Append(g.nodes, id),
                   !.adj = [n \in DOMAIN g.adj \cup {id} |->
                               IF n = id THEN {} ELSE g.adj[n]]]

\* a plausible slip: the endpoints are tested one by one, the first
\* adjacency set is written before the second endpoint is looked up
add_edge_late_check(g, u, v) ==
    IF g.err # NoErr THEN g
    ELSE IF u = v THEN [g EXCEPT !.err = "ValueError: self-loop"]
    ELSE IF u \notin Range(g.nodes) THEN [g EXCEPT !.err = "KeyError: unknown endpoint"]
    ELSE IF v \notin Range(g.nodes)
         THEN [g EXCEPT !.adj[u] = @ \cup {v}, !.err = "KeyError: unknown endpoint"]
    ELSE [g EXCEPT !.adj = [n \in DOMAIN g.adj |->
                               IF n = u THEN g.adj[n] \cup {v}
                               ELSE IF n = v THEN g.adj[n] \cup {u}
                               ELSE g.adj[n]]]

add_edge(g, u, v) ==
    IF g.err # NoErr THEN g
    ELSE IF u = v THEN [g EXCEPT !.err = "ValueError: self-loop"]
    ELSE IF u \notin Range(g.nodes) \/ v \notin Range(g.nodes)
         THEN [g EXCEPT !.err = "KeyError: unknown endpoint"]
    ELSE [g EXCEPT !.adj = [n \in DOMAIN g.adj |->
                               IF n = u THEN g.adj[n] \cup {v}
                               ELSE IF n = v THEN g.adj[n] \cup {u}
                               ELSE g.adj[n]]]

\* a plausible slip: the edge is dropped at one endpoint only
remove_edge_one_side(g, u, v) ==
    IF g.err # NoErr THEN g
    ELSE IF u \notin DOMAIN g.adj THEN [g EXCEPT !.err = "KeyError"]
    ELSE IF v \notin DOMAIN g.adj THEN [g EXCEPT !.adj[u] = @ \ {v}, !.err = "KeyError"]
    ELSE [g EXCEPT !.adj[u] = @ \ {v}]

\* self._adj[u].discard(v), then self._adj[v].discard(u); a missing key raises
remove_edge(g, u, v) ==
    IF g.err # NoErr THEN g
    ELSE IF u \notin DOMAIN g.adj THEN [g EXCEPT !.err = "KeyError"]
    ELSE IF v \notin DOMAIN g.adj THEN [g EXCEPT !.adj[u] = @ \ {v}, !.err = "KeyError"]
    ELSE [g EXCEPT !.adj = [n \in DOMAIN g.adj |->
                               IF n = u THEN g.adj[n] \ {v}
                               ELSE IF n = v THEN g.adj[n] \ {u}
                               ELSE g.adj[n]]]

neighbors(g, u) == g.adj[u]

\* the orders in which a set can be iterated
Orders(S) == {q \in [1..Cardinality(S) -> S] : \A i, j \in DOMAIN q : i # j => q[i] # q[j]}

\* Graph.edges(): the nodes in insertion order (a dict), the neighbours of
\* each in the order its set happens to iterate, the pairs with u < v
\* kept.  nbs_order[u] is the order of iteration of self._adj[u].
edges_in_order(g, nbs_order) ==
    Concat([i \in DOMAIN g.nodes |->
        LET u == g.nodes[i]
        IN  Concat([k \in DOMAIN nbs_order[u] |->
                IF StrLess(u, nbs_order[u][k]) THEN << <<u, nbs_order[u][k]>> >> ELSE <<>>])])

\* every sequence list(g.edges()) can be
edges(g) ==
    LET choices == {f \in [Range(g.nodes) -> UNION {Orders(g.adj[n]) : n \in Range(g.nodes)}] :
                       \A n \in Range(g.nodes) : f[n] \in Orders(g.adj[n])}
    IN  {edges_in_order(g, f) : f \in choices}

RECURSIVE add_nodes(_, _)
add_nodes(g, ids) ==
    IF ids = <<>> THEN g ELSE add_nodes(add_node(g, Head(ids)), Tail(ids))

RECURSIVE add_edges(_, _)
add_edges(g, es) ==
    IF es = <<>> THEN g ELSE add_edges(add_edge(g, Head(es)[1], Head(es)[2]), Tail(es))

---------------------------------------------------------------------------
(* spaces/square.py *)

TokDot    == <<46>>
TokHole   == <<35>>
TokBridge == <<43>>
TokA      == <<65>>
TokB      == <<66>>

cell_id(x, y) == str(x) \o <<44>> \o str(y)

\* len(tok) == 1 and tok.isalpha() and tok.upper() == tok, for ASCII tokens
IsTerminalTok(tok) == Len(tok) = 1 /\ tok[1] \in 65..90

tok_at(token_rows, x, y) == token_rows[y + 1][x + 1]

\* (x, y) in ports: the cell is not a hole
present(token_rows, x, y) == tok_at(token_rows, x, y) # TokHole

h_id(x, y) == cell_id(x, y) \o <<58, 104>>
v_id(x, y) == cell_id(x, y) \o <<58, 118>>

\* the nodes the first pair of loops adds for cell (x, y)
cell_nodes(token_rows, x, y) ==
    IF ~present(token_rows, x, y) THEN <<>>
    ELSE IF tok_at(token_rows, x, y) = TokBridge THEN <<h_id(x, y), v_id(x, y)>>
    ELSE <<cell_id(x, y)>>

\* ports[(x, y)][d]
ports(token_rows, x, y, d) ==
    IF tok_at(token_rows, x, y) = TokBridge
    THEN (IF d \in {"N", "S"} THEN v_id(x, y) ELSE h_id(x, y))
    ELSE cell_id(x, y)

\* a plausible slip: the east neighbour taken modulo the width, as the
\* circle builder does
cell_edges_wrap(token_rows, x, y) ==
    LET height == Len(token_rows)
        width  == Len(token_rows[1])
    IN  IF ~present(token_rows, x, y) THEN <<>>
        ELSE (IF present(token_rows, (x + 1) % width, y)
              THEN << <<ports(token_rows, x, y, "E"),
                        ports(token_rows, (x + 1) % width, y, "W")>> >> ELSE <<>>)
          \o (IF y + 1 < height /\ present(token_rows, x, y + 1)
              THEN << <<ports(token_rows, x, y, "S"),
                        ports(token_rows, x, y + 1, "N")>> >> ELSE <<>>)

\* the edges the second pair of loops adds at cell (x, y)
cell_edges(token_rows, x, y) ==
    LET height == Len(token_rows)
        width  == Len(token_rows[1])
    IN  IF ~present(token_rows, x, y) THEN <<>>
        ELSE (IF x + 1 < width /\ present(token_rows, x + 1, y)
              THEN << <<ports(token_rows, x, y, "E"),
                        ports(token_rows, x + 1, y, "W")>> >> ELSE <<>>)
          \o (IF y + 1 < height /\ present(token_rows, x, y + 1)
              THEN << <<ports(token_rows, x, y, "S"),
                        ports(token_rows, x, y + 1, "N")>> >> ELSE <<>>)

build_square_space_from_tokens(token_rows) ==
    LET height == Len(token_rows)
        width  == Len(token_rows[1])
        tok(x, y) == tok_at(token_rows, x, y)
        \* cells in the order of the two nested loops (y outer, x inner)
        cells == [i \in 1..(width * height) |-> <<(i - 1) % width, (i - 1) \div width>>]
        cellNodes(x, y) == cell_nodes(token_rows, x, y)
        nodeSeq == Concat([i \in 1..(width * height) |-> cellNodes(cells[i][1], cells[i][2])])
        edgeSeq == Concat([i \in 1..(width * height) |->
                              cell_edges(token_rows, cells[i][1], cells[i][2])])
        g == add_edges(add_nodes(EmptyGraph, nodeSeq), edgeSeq)
        \* the tiles dict, in insertion order
        tiles == Concat([i \in 1..(width * height) |->
                    IF present(token_rows, cells[i][1], cells[i][2])
                    THEN << [id |-> cell_id(cells[i][1], cells[i][2]),
                             nodes |-> cellNodes(cells[i][1], cells[i][2])] >>
                    ELSE <<>>])
        letters == {tok(c[1], c[2]) : c \in {c \in Range(cells) : IsTerminalTok(tok(c[1], c[2]))}}
        \* terminal_locs[color]: node ids in the order the cells are scanned
        terminal_locs(color) ==
            Concat([i \in 1..(width * height) |->
                      IF tok(cells[i][1], cells[i][2]) = color
                      THEN <<cell_id(cells[i][1], cells[i][2])>> ELSE <<>>])
        firstAt == [color \in letters |->
                      CHOOSE i \in 1..(width * height) :
                          /\ tok(cells[i][1], cells[i][2]) = color
                          /\ \A j \in 1..(i - 1) : tok(cells[j][1], cells[j][2]) # color]
    IN  IF height = 0 THEN [err |-> "ValueError: token_rows is empty"]
        ELSE IF \E i \in DOMAIN token_rows : Len(token_rows[i]) # width
             THEN [err |-> "ValueError: All rows must have equal width"]
        ELSE IF g.err # NoErr THEN [err |-> g.err]
        ELSE IF \E color \in letters : Len(terminal_locs(color)) # 2
             THEN [err |-> "ValueError: Terminal must appear exactly twice"]
        ELSE IF letters = {} THEN [err |-> "ValueError: No terminals found"]
        ELSE [err |-> NoErr, graph |-> g, tiles |-> tiles,
              \* the terminals dict, in the insertion order of terminal_locs
              terminals |-> LET colorSeq == SortByRank(letters, firstAt)
                            IN  [k \in DOMAIN colorSeq |->
                                   [color |-> colorSeq[k],
                                    a |-> terminal_locs(colorSeq[k])[1],
                                    b |-> terminal_locs(colorSeq[k])[2]]]]

---------------------------------------------------------------------------
(* spaces/hex.py and spaces/circle.py.  cs below is the sequence of the    *)
(* cells that got a node, in scan order, each a record [tok, id].          *)

\* terminal_locs[color]: the ids of the cells holding the letter, in scan order
terminal_locs_of(cs, color) ==
    Concat([i \in DOMAIN cs |-> IF cs[i].tok = color THEN <<cs[i].id>> ELSE <<>>])

\* a plausible slip: only a letter seen once is refused
validate_terminals_min(cs) ==
    LET letters == {cs[i].tok : i \in {i \in DOMAIN cs : IsTerminalTok(cs[i].tok)}}
        firstAt == [color \in letters |-> CHOOSE i \in DOMAIN cs :
                       cs[i].tok = color /\ \A j \in 1..(i - 1) : cs[j].tok # color]
        colorSeq == SortByRank(letters, firstAt)
    IN  IF \E color \in letters : Len(terminal_locs_of(cs, color)) < 2
        THEN [err |-> "ValueError: Terminal must appear exactly twice"]
        ELSE IF letters = {} THEN [err |-> "ValueError: No terminals found"]
        ELSE [err |-> NoErr,
              terminals |-> [k \in DOMAIN colorSeq |->
                  [color |-> colorSeq[k],
                   a |-> terminal_locs_of(cs, colorSeq[k])[1],
                   b |-> terminal_locs_of(cs, colorSeq[k])[2]]]]

\* the closing loop over terminal_locs and the test for no terminals
validate_terminals(cs) ==
    LET letters == {cs[i].tok : i \in {i \in DOMAIN cs : IsTerminalTok(cs[i].tok)}}
        firstAt == [color \in letters |-> CHOOSE i \in DOMAIN cs :
                       cs[i].tok = color /\ \A j \in 1..(i - 1) : cs[j].tok # color]
        colorSeq == SortByRank(letters, firstAt)
    IN  IF \E color \in letters : Len(terminal_locs_of(cs, color)) # 2
        THEN [err |-> "ValueError: Terminal must appear exactly twice"]
        ELSE IF letters = {} THEN [err |-> "ValueError: No terminals found"]
        ELSE [err |-> NoErr,
              terminals |-> [k \in DOMAIN colorSeq |->
                  [color |-> colorSeq[k],
                   a |-> terminal_locs_of(cs, colorSeq[k])[1],
                   b |-> terminal_locs_of(cs, colorSeq[k])[2]]]]

\* the cells of a width x height grid in the order of the nested loops
scan_cells(width, height) ==
    [i \in 1..(width * height) |-> <<(i - 1) % width, (i - 1) \div width>>]

\* present.get((x, y)) is not None
grid_present(token_rows, x, y) ==
    /\ y \in 0..(Len(token_rows) - 1)
    /\ x \in 0..(Len(token_rows[1]) - 1)
    /\ tok_at(token_rows, x, y) # TokHole

\* the [tok, id] records of the cells of a grid that are not holes
grid_cells(token_rows) ==
    LET cells == scan_cells(Len(token_rows[1]), Len(token_rows))
    IN  Concat([i \in DOMAIN cells |->
            IF grid_present(token_rows, cells[i][1], cells[i][2])
            THEN << [tok |-> tok_at(token_rows, cells[i][1], cells[i][2]),
                     id |-> cell_id(cells[i][1], cells[i][2])] >>
            ELSE <<>>])

\* one-node tiles, one per cell
cell_tiles(cs) == [i \in DOMAIN cs |-> [id |-> cs[i].id, nodes |-> <<cs[i].id>>]]

\* neighbors_xy of the hex builder (odd-r offset)
neighbors_xy(x, y) ==
    IF y % 2 = 0
    THEN << <<x + 1, y>>, <<x - 1, y>>, <<x, y - 1>>, <<x - 1, y - 1>>,
            <<x, y + 1>>, <<x - 1, y + 1>> >>
    ELSE << <<x + 1, y>>, <<x - 1, y>>, <<x + 1, y - 1>>, <<x, y - 1>>,
            <<x + 1, y + 1>>, <<x, y + 1>> >>

build_hex_space_from_tokens(token_rows) ==
    LET height == Len(token_rows)
        width  == Len(token_rows[1])
        cells  == scan_cells(width, height)
        cs     == grid_cells(token_rows)
        edgesAt(x, y) ==
            IF ~grid_present(token_rows, x, y) THEN <<>>
            ELSE Concat([k \in 1..6 |->
                    LET nb == neighbors_xy(x, y)[k]
                    IN  IF grid_present(token_rows, nb[1], nb[2])
                        THEN << <<cell_id(x, y), cell_id(nb[1], nb[2])>> >> ELSE <<>>])
        edgeSeq == Concat([i \in DOMAIN cells |-> edgesAt(cells[i][1], cells[i][2])])
        g == add_edges(add_nodes(EmptyGraph, [i \in DOMAIN cs |-> cs[i].id]), edgeSeq)
        t == validate_terminals(cs)
    IN  IF height = 0 THEN [err |-> "ValueError: token_rows is empty"]
        ELSE IF \E i \in DOMAIN token_rows : Len(token_rows[i]) # width
             THEN [err |-> "ValueError: All rows must have equal width"]
        ELSE IF g.err # NoErr THEN [err |-> g.err]
        ELSE IF t.err # NoErr THEN [err |-> t.err]
        ELSE [err |-> NoErr, graph |-> g, tiles |-> cell_tiles(cs), terminals |-> t.terminals]

\* the 1D ring
build_circle_space_from_tokens(tokens) ==
    LET n == Len(tokens)
        pres(i) == tokens[i + 1] # TokHole
        cs == Concat([k \in 1..n |->
                 IF pres(k - 1) THEN << [tok |-> tokens[k], id |-> str(k - 1)] >> ELSE <<>>])
        edgeSeq == Concat([k \in 1..n |->
                 IF pres(k - 1) /\ pres(k % n)
                 THEN << <<str(k - 1), str(k % n)>> >> ELSE <<>>])
        g == add_edges(add_nodes(EmptyGraph, [i \in DOMAIN cs |-> cs[i].id]), edgeSeq)
        t == validate_terminals(cs)
    IN  IF n = 0 THEN [err |-> "ValueError: circle token list is empty"]
        ELSE IF g.err # NoErr THEN [err |-> g.err]
        ELSE IF t.err # NoErr THEN [err |-> t.err]
        ELSE [err |-> NoErr, graph |-> g, tiles |-> cell_tiles(cs), terminals |-> t.terminals]

CoreId == <<99, 111, 114, 101>>

\* a plausible slip: the core node is left out of the tiles
core_tiles_none(core) == <<>>

\* the tile the core node gets
core_tiles(core) == IF core THEN << [id |-> CoreId, nodes |-> <<CoreId>>] >> ELSE <<>>

\* the 2D rings and sectors
build_circle_space_from_token_rows(token_rows, core) ==
    LET rings == Len(token_rows)
        width == Len(token_rows[1])
        cells == scan_cells(width, rings)
        cs    == grid_cells(token_rows)
        angular == Concat([i \in DOMAIN cells |->
            LET x == cells[i][1]
                y == cells[i][2]
            IN  IF grid_present(token_rows, x, y) /\ grid_present(token_rows, (x + 1) % width, y)
                THEN << <<cell_id(x, y), cell_id((x + 1) % width, y)>> >> ELSE <<>>])
        radial == Concat([i \in DOMAIN cells |->
            LET x == cells[i][1]
                y == cells[i][2]
            IN  IF grid_present(token_rows, x, y) /\ grid_present(token_rows, x, y + 1)
                THEN << <<cell_id(x, y), cell_id(x, y + 1)>> >> ELSE <<>>])
        g1 == add_edges(add_nodes(EmptyGraph, [i \in DOMAIN cs |-> cs[i].id]),
                        angular \o radial)
        spokes == Concat([k \in 1..width |->
                     IF grid_present(token_rows, k - 1, 0)
                     THEN << <<CoreId, cell_id(k - 1, 0)>> >> ELSE <<>>])
        g == IF core THEN add_edges(add_node(g1, CoreId), spokes) ELSE g1
        t == validate_terminals(cs)
    IN  IF rings = 0 THEN [err |-> "ValueError: circle token grid is empty"]
        ELSE IF width = 0 THEN [err |-> "ValueError: circle token grid has empty rows"]
        ELSE IF \E i \in DOMAIN token_rows : Len(token_rows[i]) # width
             THEN [err |-> "ValueError: All circle rows (rings) must have the same width"]
        ELSE IF g.err # NoErr THEN [err |-> g.err]
        ELSE IF t.err # NoErr THEN [err |-> t.err]
        ELSE [err |-> NoErr, graph |-> g, tiles |-> cell_tiles(cs) \o core_tiles(core),
              terminals |-> t.terminals]

---------------------------------------------------------------------------
(* puzzle.py *)

\* A Puzzle: graph, tiles (dict in insertion order: a sequence of
\* [id, nodes]), terminals (dict in insertion order: a sequence of
\* [color, a, b]), fill.
Puzzle(g, tiles, terminals, fill) ==
    [graph |-> g, tiles |-> tiles, terminals |-> terminals, fill |-> fill]

terminal_colors(p) == {p.terminals[i].color : i \in DOMAIN p.terminals}

all_colors(p) == sorted(terminal_colors(p))

\* terminals[color]; a dict holds one entry per key
terminal_pair(p, color) ==
    LET i == CHOOSE i \in DOMAIN p.terminals : p.terminals[i].color = color
    IN  <<p.terminals[i].a, p.terminals[i].b>>

terminal_nodes(p) ==
    {p.terminals[i].a : i \in DOMAIN p.terminals} \cup
    {p.terminals[i].b : i \in DOMAIN p.terminals}

from_flow_grid_tokens(token_rows, fill) ==
    LET b == build_square_space_from_tokens(token_rows)
    IN  IF b.err # NoErr THEN [err |-> b.err]
        ELSE [err |-> NoErr, puzzle |-> Puzzle(b.graph, b.tiles, b.terminals, fill)]

\* Puzzle.from_json, graph mode.  obj.nodes: the node ids in document
\* order; obj.edges: a sequence of pairs; obj.tiles: None or a sequence of
\* [id, nodes]; obj.terminals: a sequence of [color, pair]; obj.fill.
from_json(obj) ==
    LET g == add_edges(add_nodes(EmptyGraph, obj.nodes), obj.edges)
        tiles == IF obj.tiles = None
                 THEN [i \in DOMAIN g.nodes |-> [id |-> g.nodes[i], nodes |-> <<g.nodes[i]>>]]
                 ELSE obj.tiles
    IN  IF g.err # NoErr THEN [err |-> g.err]
        ELSE IF \E i \in DOMAIN obj.terminals : Len(obj.terminals[i].pair) # 2
             THEN [err |-> "ValueError: Terminal pair must be a list of 2 node ids"]
        ELSE [err |-> NoErr,
              puzzle |-> Puzzle(g, tiles,
                   [i \in DOMAIN obj.terminals |->
                       [color |-> obj.terminals[i].color,
                        a |-> obj.terminals[i].pair[1], b |-> obj.terminals[i].pair[2]]],
                   obj.fill)]

---------------------------------------------------------------------------
(* Puzzle.from_flow_text.  A text is the sequence of its lines (what       *)
(* splitlines() gives), a line a sequence of character codes.              *)

(* Character codes: 35 '#', 58 ':', 32 ' ', 9 tab, 65 'A', 46 '.'.          *)

\* str.isspace() of one character, for ASCII
isspace(c) == c \in {9, 10, 11, 12, 13, 28, 29, 30, 31, 32}

RECURSIVE lstrip(_)
lstrip(s) == IF s # <<>> /\ isspace(Head(s)) THEN lstrip(Tail(s)) ELSE s

RECURSIVE rstrip(_)
rstrip(s) ==
    IF s # <<>> /\ isspace(s[Len(s)]) THEN rstrip(SubSeq(s, 1, Len(s) - 1)) ELSE s

strip(s) == rstrip(lstrip(s))

\* str.lower(), for ASCII
lower(s) == [i \in DOMAIN s |-> IF s[i] \in 65..90 THEN s[i] + 32 ELSE s[i]]

\* str.split(): the maximal runs of characters that are not whitespace
RECURSIVE split(_)
split(s) ==
    LET t == lstrip(s)
        n == IF \E i \in DOMAIN t : isspace(t[i])
             THEN (CHOOSE i \in DOMAIN t : isspace(t[i]) /\ \A j \in 1..(i - 1) : ~isspace(t[j])) - 1
             ELSE Len(t)
    IN  IF t = <<>> THEN <<>>
        ELSE <<SubSeq(t, 1, n)>> \o split(SubSeq(t, n + 1, Len(t)))

\* list(s): one token per character
list(s) == [i \in DOMAIN s |-> <<s[i]>>]

\* [x.strip() for x in hdr.split(":", 1)], for a hdr that holds a colon
split_key_value(hdr) ==
    LET i == CHOOSE i \in DOMAIN hdr : hdr[i] = 58 /\ \A j \in 1..(i - 1) : hdr[j] # 58
    IN  <<strip(SubSeq(hdr, 1, i - 1)), strip(SubSeq(hdr, i + 1, Len(hdr)))>>

\* {"1", "true", "yes", "y", "on"}
Truthy == { <<49>>, <<116, 114, 117, 101>>, <<121, 101, 115>>, <<121>>, <<111, 110>> }

\* the branch the loop of lines 105-128 takes on one line
line_class(ln) ==
    LET raw == strip(ln)
    IN  IF raw = <<>> THEN "empty"
        ELSE IF Head(raw) = 35
             THEN (IF 58 \in Range(strip(Tail(raw))) THEN "directive"
                   ELSE IF Len(raw) >= 2 /\ isspace(raw[2]) THEN "comment"
                   ELSE "grid")
        ELSE "grid"

\* the loop of lines 105-128 from line i on; acc holds grid_lines,
\* board_type, fill and meta (key -> value)
RECURSIVE scan_lines(_, _, _)
scan_lines(lines, i, acc) ==
    IF i > Len(lines) THEN acc
    ELSE LET ln == lines[i]
             c == line_class(ln)
             kv == split_key_value(strip(Tail(strip(ln))))
             k == kv[1]
             v == kv[2]
             type == <<116, 121, 112, 101>>
             fill == <<102, 105, 108, 108>>
         IN  scan_lines(lines, i + 1,
                IF c = "grid" THEN [acc EXCEPT !.grid_lines = Append(@, ln)]
                ELSE IF c = "directive"
                THEN (IF lower(k) = type THEN [acc EXCEPT !.board_type = lower(v)]
                      ELSE IF lower(k) = fill THEN [acc EXCEPT !.fill = lower(v) \in Truthy]
                      ELSE [acc EXCEPT !.meta = [x \in DOMAIN @ \cup {k} |->
                                                    IF x = k THEN v ELSE @[x]]])
                ELSE acc)

\* lines 135-138: the tokens of one grid row
tokenize(row) ==
    IF 32 \in Range(strip(row)) THEN split(strip(row)) ELSE list(strip(row))

\* the value a builder returned, as a Puzzle
as_puzzle(b, fill) ==
    IF b.err # NoErr THEN [err |-> b.err]
    ELSE [err |-> NoErr, puzzle |-> Puzzle(b.graph, b.tiles, b.terminals, fill)]

\* Puzzle.from_flow_text; grid_lines and token_rows are given back along
\* with the Puzzle or the error
from_flow_text(lines) ==
    LET square == <<115, 113, 117, 97, 114, 101>>
        hex == <<104, 101, 120>>
        circle == <<99, 105, 114, 99, 108, 101>>
        false == <<102, 97, 108, 115, 101>>
        key == <<99, 111, 114, 101>>    \* "core"
        acc == scan_lines(lines, 1,
                   [grid_lines |-> <<>>, board_type |-> square, fill |-> TRUE,
                    meta |-> [x \in {} |-> <<>>]])
        rows == [i \in DOMAIN acc.grid_lines |-> tokenize(acc.grid_lines[i])]
        token_rows == SelectSeq(rows, LAMBDA r : r # <<>>)
        width == CHOOSE w \in {Len(token_rows[i]) : i \in DOMAIN token_rows} :
                     \A i \in DOMAIN token_rows : Len(token_rows[i]) <= w
        core == lower(IF key \in DOMAIN acc.meta THEN acc.meta[key] ELSE false)
                    \in Truthy
        r == IF token_rows = <<>> THEN [err |-> "ValueError: No grid found in .flow file"]
             ELSE IF \E i \in DOMAIN token_rows : Len(token_rows[i]) # width
                  THEN [err |-> "ValueError: All grid rows must have the same width in .flow"]
             ELSE IF acc.board_type = square
                  THEN as_puzzle(build_square_space_from_tokens(token_rows), acc.fill)
             ELSE IF acc.board_type = hex
                  THEN as_puzzle(build_hex_space_from_tokens(token_rows), acc.fill)
             ELSE IF acc.board_type = circle
                  THEN as_puzzle(build_circle_space_from_token_rows(token_rows, core), acc.fill)
             ELSE [err |-> "ValueError: Unsupported '# type' in .flow"]
    IN  IF r.err # NoErr
        THEN [err |-> r.err, grid_lines |-> acc.grid_lines, token_rows |-> token_rows]
        ELSE [err |-> NoErr, grid_lines |-> acc.grid_lines, token_rows |-> token_rows,
              puzzle |-> r.puzzle]

---------------------------------------------------------------------------
(* The puzzles of the model *)

NodeN(i) == <<110>> \o str(i)

\* spec scenario 1: AB / BA
Grid2x2 == << <<TokA, TokB>>, <<TokB, TokA>> >>
\* spec scenario 2: A.. / ... / ..A
Grid3x3 == << <<TokA, TokDot, TokDot>>, <<TokDot, TokDot, TokDot>>, <<TokDot, TokDot, TokA>> >>
\* spec scenario 3: A.B / .+. / B.A
GridBridge == << <<TokA, TokDot, TokB>>, <<TokDot, TokBridge, TokDot>>, <<TokB, TokDot, TokA>> >>
\* a board with a hole and a detour: A.. / .#. / ..A  and  A.A / ... / B.B
GridHole == << <<TokA, TokDot, TokDot>>, <<TokDot, TokHole, TokDot>>, <<TokDot, TokDot, TokA>> >>
GridRows == << <<TokA, TokDot, TokA>>, <<TokDot, TokDot, TokDot>>, <<TokB, TokDot, TokB>> >>

Grids == {Grid2x2, Grid3x3, GridBridge, GridHole, GridRows}

\* spec scenario 6: triangle n1, n2, n3 with A at n1 and n2
TriangleJson(fill) ==
    [nodes |-> <<NodeN(1), NodeN(2), NodeN(3)>>,
     edges |-> << <<NodeN(1), NodeN(2)>>, <<NodeN(2), NodeN(3)>>, <<NodeN(1), NodeN(3)>> >>,
     tiles |-> None,
     terminals |-> << [color |-> TokA, pair |-> <<NodeN(1), NodeN(2)>>] >>,
     fill |-> fill]

\* an edge n1-n2 with A at its ends, and a triangle n3, n4, n5 apart from it
DetachedJson(fill) ==
    [nodes |-> <<NodeN(1), NodeN(2), NodeN(3), NodeN(4), NodeN(5)>>,
     edges |-> << <<NodeN(1), NodeN(2)>>, <<NodeN(3), NodeN(4)>>,
                  <<NodeN(4), NodeN(5)>>, <<NodeN(3), NodeN(5)>> >>,
     tiles |-> None,
     terminals |-> << [color |-> TokA, pair |-> <<NodeN(1), NodeN(2)>>] >>,
     fill |-> fill]

\* the pairs i < j of 1..K in lexicographic order
PairSeq(K) ==
    LET idx(i, j) == (i - 1) * K + j
        all == [k \in 1..(K * K) |->
                  LET i == ((k - 1) \div K) + 1
                      j == ((k - 1) % K) + 1
                  IN  IF i < j THEN << <<i, j>> >> ELSE <<>>]
    IN  Concat(all)

\* the free-form documents over nodes n1..nK: any edge set, A at any two
\* distinct nodes, optionally B at two other nodes, tiles left out or
\* given with the last two nodes sharing one tile "t"
GraphJsons(K) ==
    LET pairs == PairSeq(K)
        edgesOf(E) == Concat([k \in DOMAIN pairs |->
                         IF pairs[k] \in E
                         THEN << <<NodeN(pairs[k][1]), NodeN(pairs[k][2])>> >> ELSE <<>>])
        pairTiles == [i \in 1..(K - 1) |->
                         IF i < K - 1 THEN [id |-> NodeN(i), nodes |-> <<NodeN(i)>>]
                         ELSE [id |-> <<116>>, nodes |-> <<NodeN(K - 1), NodeN(K)>>]]
        termSeqs ==
            { << [color |-> TokA, pair |-> <<NodeN(a), NodeN(b)>>] >> :
                  <<a, b>> \in {t \in (1..K) \X (1..K) : t[1] # t[2]} }
            \cup
            { << [color |-> TokA, pair |-> <<NodeN(t[1]), NodeN(t[2])>>],
                 [color |-> TokB, pair |-> <<NodeN(t[3]), NodeN(t[4])>>] >> :
                  t \in {t \in (1..K) \X (1..K) \X (1..K) \X (1..K) :
                            /\ Cardinality({t[1], t[2], t[3], t[4]}) = 4
                            /\ t[3] < t[4]} }
    IN  { [nodes |-> [i \in 1..K |-> NodeN(i)], edges |-> edgesOf(E), tiles |-> tl,
           terminals |-> ts, fill |-> f] :
            E \in SUBSET Range(pairs), tl \in {None, pairTiles},
            ts \in termSeqs, f \in BOOLEAN }

Parsed ==
    {from_flow_grid_tokens(gr, f) : gr \in Grids, f \in BOOLEAN}
    \cup {from_json(TriangleJson(f)) : f \in BOOLEAN}
    \cup {from_json(DetachedJson(f)) : f \in BOOLEAN}
    \cup {from_json(o) : o \in GraphJsons(MaxNodes)}

Puzzles == {r.puzzle : r \in {r \in Parsed : r.err = NoErr}}

---------------------------------------------------------------------------
(* solver/dfs_solver.py: what solve_with_dfs derives from the puzzle *)

NodeSet(p) == Range(p.graph.nodes)

\* neighbors[n]: sorted(puzzle.graph.neighbors(n))
\* a plausible slip: the neighbours are left in the order of the set, which
\* is not the same from one run to the next
dfs_neighbors_unsorted(p, n) ==
    LET q == sorted(neighbors(p.graph, n))
    IN  IF calls = 2 THEN [i \in DOMAIN q |-> q[Len(q) + 1 - i]] ELSE q

dfs_neighbors(p, n) == sorted(neighbors(p.graph, n))

node_degree(p, n) == Len(dfs_neighbors(p, n))

\* node_to_tile[n]: the last tile of puzzle.tiles listing n, else n itself
node_to_tile(p, n) ==
    LET holders == {i \in DOMAIN p.tiles : n \in Range(p.tiles[i].nodes)}
    IN  IF holders = {} THEN n
        ELSE p.tiles[CHOOSE i \in holders : \A j \in holders : j <= i].id

uncovered_nodes(p) ==
    {n \in NodeSet(p) : \A i \in DOMAIN p.tiles : n \notin Range(p.tiles[i].nodes)}

tile_ids(p) == {p.tiles[i].id : i \in DOMAIN p.tiles} \cup uncovered_nodes(p)

tile_to_nodes(p, t) ==
    IF t \in uncovered_nodes(p) THEN <<t>>
    ELSE p.tiles[CHOOSE i \in DOMAIN p.tiles :
                    /\ p.tiles[i].id = t
                    /\ \A j \in DOMAIN p.tiles : p.tiles[j].id = t => j <= i].nodes

---------------------------------------------------------------------------
(* solver/dfs_solver.py: the search state S =                              *)
(* [assigned, tile_color_usage, path_adj, heads, done, err]                *)

\* path_adj[color].get(n, set())
path_adj_get(S, color, n) ==
    IF n \in DOMAIN S.path_adj[color] THEN S.path_adj[color][n] ELSE {}

Raise(S, e) == IF S.err = NoErr THEN [S EXCEPT !.err = e] ELSE S

\* a plausible slip: the colour is not recorded in its tile's usage set
assign_node_no_usage(p, S, color, node) ==
    LET current == S.assigned[node]
        tile == node_to_tile(p, node)
    IN  IF S.err # NoErr THEN S
        ELSE IF current # None
             THEN (IF current # color THEN Raise(S, "ValueError: node already assigned") ELSE S)
        ELSE IF color \in S.tile_color_usage[tile]
             THEN Raise(S, "ValueError: tile already used")
        ELSE [S EXCEPT !.assigned[node] = color,
                       !.path_adj[color] =
                           [k \in DOMAIN @ \cup {node} |->
                               IF k \in DOMAIN @ THEN @[k] ELSE {}]]

assign_node(p, S, color, node) ==
    LET current == S.assigned[node]
        tile == node_to_tile(p, node)
    IN  IF S.err # NoErr THEN S
        ELSE IF current # None
             THEN (IF current # color THEN Raise(S, "ValueError: node already assigned") ELSE S)
        ELSE IF color \in S.tile_color_usage[tile]
             THEN Raise(S, "ValueError: tile already used")
        ELSE [S EXCEPT !.assigned[node] = color,
                       !.tile_color_usage[tile] = @ \cup {color},
                       !.path_adj[color] =
                           [k \in DOMAIN @ \cup {node} |->
                               IF k \in DOMAIN @ THEN @[k] ELSE {}]]

\* a plausible slip: the colour stays in the tile's colour set
unassign_node_keep_usage(p, S, color, node) ==
    IF S.err # NoErr THEN S
    ELSE IF node \in terminal_nodes(p)
         THEN Raise(S, "AssertionError: unassign a terminal node")
    ELSE IF S.assigned[node] # color THEN Raise(S, "AssertionError: unassign mismatch")
    ELSE [S EXCEPT !.assigned[node] = None,
                   !.path_adj[color] =
                       IF node \in DOMAIN @ /\ @[node] = {}
                       THEN [k \in DOMAIN @ \ {node} |-> @[k]] ELSE @]

unassign_node(p, S, color, node) ==
    IF S.err # NoErr THEN S
    ELSE IF node \in terminal_nodes(p)
         THEN Raise(S, "AssertionError: unassign a terminal node")
    ELSE IF S.assigned[node] # color THEN Raise(S, "AssertionError: unassign mismatch")
    ELSE [S EXCEPT !.assigned[node] = None,
                   !.tile_color_usage[node_to_tile(p, node)] = @ \ {color},
                   !.path_adj[color] =
                       IF node \in DOMAIN @ /\ @[node] = {}
                       THEN [k \in DOMAIN @ \ {node} |-> @[k]] ELSE @]

\* a plausible slip: the edge is recorded at one endpoint only
path_add_edge_one_way(S, color, a, b) ==
    IF S.err # NoErr THEN S
    ELSE [S EXCEPT !.path_adj[color] =
            [k \in DOMAIN @ \cup {a, b} |->
                (IF k \in DOMAIN @ THEN @[k] ELSE {})
                \cup (IF k = a THEN {b} ELSE {})]]

\* add_edge(color, a, b) of the solver
path_add_edge(S, color, a, b) ==
    IF S.err # NoErr THEN S
    ELSE [S EXCEPT !.path_adj[color] =
            [k \in DOMAIN @ \cup {a, b} |->
                (IF k \in DOMAIN @ THEN @[k] ELSE {})
                \cup (IF k = a THEN {b} ELSE {}) \cup (IF k = b THEN {a} ELSE {})]]

\* remove_edge(color, a, b) of the solver
path_remove_edge(S, color, a, b) ==
    IF S.err # NoErr THEN S
    ELSE IF a \notin DOMAIN S.path_adj[color] \/ b \notin DOMAIN S.path_adj[color]
         THEN Raise(S, "KeyError")
    ELSE LET d == [k \in DOMAIN S.path_adj[color] |->
                     IF k = a THEN S.path_adj[color][k] \ {b}
                     ELSE IF k = b THEN S.path_adj[color][k] \ {a}
                     ELSE S.path_adj[color][k]]
             dead == {k \in {a, b} : d[k] = {}}
         IN  [S EXCEPT !.path_adj[color] = [k \in DOMAIN d \ dead |-> d[k]]]

\* lines 86-96: the terminals, from the i-th on
RECURSIVE setup_terminals(_, _, _)
setup_terminals(p, S, i) ==
    IF i > Len(p.terminals) \/ S.err # NoErr THEN S
    ELSE LET t == p.terminals[i]
             S1 == [S EXCEPT
                      !.path_adj = [c \in DOMAIN @ \cup {t.color} |->
                                      IF c = t.color
                                      THEN [k \in {t.a, t.b} |-> {}] ELSE @[c]],
                      !.heads = [c \in DOMAIN @ \cup {t.color} |->
                                      IF c = t.color THEN <<t.a, t.b>> ELSE @[c]],
                      !.done = [c \in DOMAIN @ \cup {t.color} |->
                                      IF c = t.color THEN FALSE ELSE @[c]]]
         IN  IF t.a = t.b
             THEN Raise(S, "ValueError: terminal endpoints must be distinct")
             ELSE setup_terminals(p,
                      assign_node(p, assign_node(p, S1, t.color, t.a), t.color, t.b),
                      i + 1)

\* head_idx is 0 or 1 as in the source; heads[color] is a pair
available_moves(p, S, color, head_idx) ==
    LET head  == S.heads[color][head_idx + 1]
        other == S.heads[color][(1 - head_idx) + 1]
        nbs   == dfs_neighbors(p, head)
        moveAt(nb) ==
            IF S.assigned[nb] = None
            THEN (IF color \in S.tile_color_usage[node_to_tile(p, nb)] THEN <<>>
                  ELSE << [kind |-> "extend", node |-> nb] >>)
            ELSE IF S.assigned[nb] = color /\ nb = other /\ ~S.done[color]
                 THEN (IF other \notin path_adj_get(S, color, head)
                       THEN << [kind |-> "connect", node |-> nb] >> ELSE <<>>)
            ELSE <<>>
    IN  Concat([i \in DOMAIN nbs |-> moveAt(nbs[i])])

move_sort_key(p, move) ==
    IF move.kind = "connect" THEN <<1, 0>> ELSE <<0, node_degree(p, move.node)>>

\* tuple comparison of Python, for keys of one or two integers
KeyLess(a, b) ==
    \/ a[1] < b[1]
    \/ a[1] = b[1] /\ Len(a) > 1 /\ a[2] < b[2]

\* sorted(seq, key=...): stable; keys[i] is the key of seq[i]
RECURSIVE StableSort(_, _)
StableSort(seq, keys) ==
    IF seq = <<>> THEN <<>>
    ELSE LET i == CHOOSE i \in DOMAIN seq :
                     /\ \A j \in DOMAIN seq : ~KeyLess(keys[j], keys[i])
                     /\ \A j \in 1..(i - 1) : KeyLess(keys[i], keys[j])
             drop(q) == [k \in 1..(Len(q) - 1) |-> IF k < i THEN q[k] ELSE q[k + 1]]
         IN  <<seq[i]>> \o StableSort(drop(seq), drop(keys))

\* a plausible slip: a node the colour already holds is not usable
can_use_node_unassigned_only(p, S, color, node) ==
    /\ S.assigned[node] = None
    /\ color \notin S.tile_color_usage[node_to_tile(p, node)]

can_use_node_for_color(p, S, color, node) ==
    IF S.assigned[node] = None
    THEN color \notin S.tile_color_usage[node_to_tile(p, node)]
    ELSE S.assigned[node] = color

\* the while loop of heads_reachable; queue.pop() takes the last element.
\* neighbors[cur] is a sorted list, path_adj[color][cur] a set, iterated in
\* whatever order the set has: the value is the set of the answers the loop
\* can give, one for every order of iteration
RECURSIVE reach_loop(_, _, _, _, _, _, _)
reach_loop(p, S, color, target, heads_set, queue, visited) ==
    IF queue = <<>> THEN {FALSE}
    ELSE LET cur  == queue[Len(queue)]
             rest == SubSeq(queue, 1, Len(queue) - 1)
             nbrs == IF S.assigned[cur] = color /\ cur \notin heads_set
                     THEN Orders(path_adj_get(S, color, cur))
                     ELSE {dfs_neighbors(p, cur)}
             fresh(nb) == nb \notin visited /\ can_use_node_for_color(p, S, color, nb)
         IN  IF cur = target THEN {TRUE}
             ELSE UNION { reach_loop(p, S, color, target, heads_set,
                              rest \o SelectSeq(q, fresh),
                              visited \cup Range(SelectSeq(q, fresh))) : q \in nbrs }

\* the answers heads_reachable(color) can give
heads_reachable(p, S, color) ==
    LET start  == S.heads[color][1]
        target == S.heads[color][2]
    IN  IF S.done[color] THEN {TRUE}
        ELSE IF start = target THEN {TRUE}
        ELSE reach_loop(p, S, color, target, {start, target}, <<start>>, {start})

\* the answers all_heads_reachable() can give
all_heads_reachable(p, S) ==
    LET undone == {c \in Range(all_colors(p)) : ~S.done[c]}
    IN  {r \in BOOLEAN :
            IF r THEN \A c \in undone : TRUE \in heads_reachable(p, S, c)
            ELSE \E c \in undone : FALSE \in heads_reachable(p, S, c)}

\* a plausible slip: any() where all() is meant
all_tiles_used_any(p, S) ==
    \E t \in tile_ids(p) : \E n \in Range(tile_to_nodes(p, t)) : S.assigned[n] # None

all_tiles_used(p, S) ==
    \A t \in tile_ids(p) : \E n \in Range(tile_to_nodes(p, t)) : S.assigned[n] # None

\* a plausible slip: the candidates are not sorted by their number of moves
choose_candidate_unsorted(p, S) ==
    LET colors == all_colors(p)
        undone == SelectSeq(colors, LAMBDA c : ~S.done[c])
        stuck(c) == available_moves(p, S, c, 0) = <<>> /\ available_moves(p, S, c, 1) = <<>>
        cand(c, h) ==
            LET m == available_moves(p, S, c, h)
            IN  IF m = <<>> THEN <<>>
                ELSE << [n |-> Len(m), color |-> c, head_idx |-> h, moves |-> m] >>
        candidates == Concat([i \in DOMAIN undone |-> cand(undone[i], 0) \o cand(undone[i], 1)])
    IN  IF \E i \in DOMAIN undone : stuck(undone[i]) THEN [fail |-> TRUE]
        ELSE IF candidates = <<>> THEN [fail |-> TRUE]
        ELSE [fail |-> FALSE, color |-> candidates[1].color,
              head_idx |-> candidates[1].head_idx,
              moves |-> StableSort(candidates[1].moves,
                          [i \in DOMAIN candidates[1].moves |->
                              move_sort_key(p, candidates[1].moves[i])])]

\* lines 178-195 of search(): "fail" or the chosen (color, head_idx, moves)
choose_candidate(p, S) ==
    LET colors == all_colors(p)
        undone == SelectSeq(colors, LAMBDA c : ~S.done[c])
        stuck(c) == available_moves(p, S, c, 0) = <<>> /\ available_moves(p, S, c, 1) = <<>>
        cand(c, h) ==
            LET m == available_moves(p, S, c, h)
            IN  IF m = <<>> THEN <<>>
                ELSE << [n |-> Len(m), color |-> c, head_idx |-> h, moves |-> m] >>
        candidates == Concat([i \in DOMAIN undone |-> cand(undone[i], 0) \o cand(undone[i], 1)])
        ordered == StableSort(candidates, [i \in DOMAIN candidates |-> <<candidates[i].n>>])
    IN  IF \E i \in DOMAIN undone : stuck(undone[i]) THEN [fail |-> TRUE]
        ELSE IF candidates = <<>> THEN [fail |-> TRUE]
        ELSE [fail |-> FALSE, color |-> ordered[1].color, head_idx |-> ordered[1].head_idx,
              moves |-> StableSort(ordered[1].moves,
                          [i \in DOMAIN ordered[1].moves |->
                              move_sort_key(p, ordered[1].moves[i])])]

\* lines 226-240: the walk along path_adj from start to goal
RECURSIVE dfs_walk(_, _, _, _, _, _)
dfs_walk(S, color, goal, path, prev, cur) ==
    IF cur = goal THEN [err |-> NoErr, path |-> path]
    ELSE LET nexts == path_adj_get(S, color, cur) \ {prev}
         IN  IF Cardinality(nexts) # 1
             THEN [err |-> "ValueError: Cannot uniquely reconstruct path"]
             ELSE IF Len(path) > Cardinality(DOMAIN S.assigned)
             THEN [err |-> "walk does not end"]
             ELSE LET nxt == CHOOSE n \in nexts : TRUE
                  IN  dfs_walk(S, color, goal, Append(path, nxt), cur, nxt)

---------------------------------------------------------------------------
(* The state, in groups *)

cvars == <<timeout_ms, calls, first>>
svars == <<puzzle, pc, assigned, tile_color_usage, path_adj, heads, done, steps,
           stack, ret, dfs, z3, cvars>>
lvars == <<input, output>>
gvars == <<graph, last, yielded, readded>>
vars == <<svars, lvars, gvars>>

\* no loader call in progress
LoaderIdle == input = None /\ output = None
\* no Graph object in use
NoCall == [op |-> "none"]
GraphIdle == graph = EmptyGraph /\ last = NoCall /\ yielded = <<>> /\ readded = {}

St == [assigned |-> assigned, tile_color_usage |-> tile_color_usage,
       path_adj |-> path_adj, heads |-> heads, done |-> done, err |-> NoErr]

Install(S) ==
    /\ assigned' = S.assigned
    /\ tile_color_usage' = S.tile_color_usage
    /\ path_adj' = S.path_adj
    /\ heads' = S.heads
    /\ done' = S.done

Pending == [status |-> "pending"]

\* line 15: the timeout a call gets when the caller names none
DefaultTimeoutMs == 30000

\* line 170: the time is looked at on every CheckEvery-th entry of search()
CheckEvery == 1000

\* a plausible slip: the time is compared also when there is no timeout
check_timeout_always(t) == BOOLEAN

\* lines 43-48, check_timeout(): whether it raises.  The clock is outside
\* the program, so with a timeout set the time used up may or may not
\* exceed it; with timeout_ms None it returns at once
check_timeout(t) == IF t = None THEN {FALSE} ELSE BOOLEAN

\* what a call would start from if the tile usage of the call before it
\* were kept
FreshStateStale(p) ==
    [assigned |-> [n \in NodeSet(p) |-> None],
     tile_color_usage |-> tile_color_usage,
     path_adj |-> [c \in {} |-> {}],
     heads |-> [c \in {} |-> {}],
     done |-> [c \in {} |-> {}],
     err |-> NoErr]

\* lines 35-41: the search state every call of solve_with_dfs creates
FreshState(p) ==
    [assigned |-> [n \in NodeSet(p) |-> None],
     tile_color_usage |-> [t \in tile_ids(p) |-> {}],
     path_adj |-> [c \in {} |-> {}],
     heads |-> [c \in {} |-> {}],
     done |-> [c \in {} |-> {}],
     err |-> NoErr]

Init ==
    /\ puzzle \in Puzzles
    /\ pc = "setup"
    /\ assigned = [n \in NodeSet(puzzle) |-> None]
    /\ tile_color_usage = [t \in tile_ids(puzzle) |-> {}]
    /\ path_adj = [c \in {} |-> {}]
    /\ heads = [c \in {} |-> {}]
    /\ done = [c \in {} |-> {}]
    /\ steps = 0
    /\ stack = <<>>
    /\ ret = FALSE
    /\ dfs = Pending
    /\ z3 = Pending
    /\ timeout_ms = <<DefaultTimeoutMs>>
    /\ calls = 1
    /\ first = Pending
    /\ LoaderIdle
    /\ GraphIdle

\* an exception other than a timeout leaves solve_with_dfs
DfsRaise(S) ==
    /\ Install(S)
    /\ dfs' = [status |-> "error", err |-> S.err]
    /\ pc' = "z3"

\* lines 86-96, then line 220 calls search()
DfsSetup ==
    /\ pc = "setup"
    /\ LET S == setup_terminals(puzzle, St, 1)
       IN  IF S.err # NoErr
           THEN DfsRaise(S) /\ UNCHANGED <<lvars, gvars, cvars, puzzle, steps, stack, ret, z3>>
           ELSE /\ Install(S)
                /\ pc' = "search"
                /\ UNCHANGED <<lvars, gvars, cvars, puzzle, steps, stack, ret, dfs, z3>>

\* line 219: check_timeout() before the first search() finds the time used
\* up
DfsTimeout ==
    /\ pc = "search"
    /\ steps = 0
    /\ TRUE \in check_timeout(timeout_ms)
    /\ dfs' = [status |-> "timeout"]
    /\ pc' = "z3"
    /\ UNCHANGED <<lvars, gvars, cvars, puzzle, assigned, tile_color_usage, path_adj, heads,
                   done, steps, stack, ret, z3>>

\* lines 15-41 and 165: solve_with_dfs is called once more on the same
\* Puzzle after the first call has returned or raised
SolveAgain ==
    /\ pc = "z3"
    /\ calls = 1
    /\ calls' = 2
    /\ first' = dfs
    /\ dfs' = Pending
    /\ Install(FreshState(puzzle))
    /\ steps' = 0
    /\ stack' = <<>>
    /\ ret' = FALSE
    /\ pc' = "setup"
    /\ UNCHANGED <<lvars, gvars, puzzle, z3, timeout_ms>>

Top == stack[Len(stack)]
Pop == SubSeq(stack, 1, Len(stack) - 1)
TopMove == Top.moves[Top.i]

\* lines 167-195: entry of search() up to the choice of the moves; the
\* DfsTimeoutError of line 171 leaves every active search() and the call
SearchEnter ==
    /\ pc = "search"
    /\ steps' = steps + 1
    /\ \E expired \in (IF (steps + 1) % CheckEvery = 0
                       THEN check_timeout(timeout_ms) ELSE {FALSE}) :
          IF expired
          THEN /\ dfs' = [status |-> "timeout"]
               /\ pc' = "z3"
               /\ UNCHANGED <<stack, ret>>
          ELSE /\ UNCHANGED dfs
               /\ IF \A c \in Range(all_colors(puzzle)) : done[c]
                  THEN /\ ret' = ~(puzzle.fill /\ ~all_tiles_used(puzzle, St))
                       /\ pc' = "return"
                       /\ UNCHANGED stack
                  ELSE LET c == choose_candidate(puzzle, St)
                       IN  IF c.fail
                           THEN /\ ret' = FALSE
                                /\ pc' = "return"
                                /\ UNCHANGED stack
                           ELSE /\ stack' = Append(stack,
                                       [color |-> c.color, head_idx |-> c.head_idx,
                                        moves |-> c.moves, i |-> 1,
                                        prev_head |-> None, head |-> None, other |-> None])
                                /\ pc' = "loop"
                                /\ UNCHANGED ret
    /\ UNCHANGED <<lvars, gvars, cvars, puzzle, assigned, tile_color_usage, path_adj, heads, done, z3>>

\* lines 197-202: an extend move and the pruning test
TryExtend ==
    /\ pc = "loop"
    /\ Top.i <= Len(Top.moves)
    /\ TopMove.kind = "extend"
    /\ LET color == Top.color
           prev_head == heads[color][Top.head_idx + 1]
           S1 == path_add_edge(assign_node(puzzle, St, color, TopMove.node),
                               color, prev_head, TopMove.node)
           S2 == [S1 EXCEPT !.heads[color][Top.head_idx + 1] = TopMove.node]
       IN  IF S2.err # NoErr
           THEN DfsRaise(S2) /\ UNCHANGED <<lvars, gvars, cvars, puzzle, steps, stack, ret, z3>>
           ELSE /\ Install(S2)
                /\ stack' = [stack EXCEPT ![Len(stack)].prev_head = prev_head]
                /\ \E r \in all_heads_reachable(puzzle, S2) :
                      pc' = IF r THEN "search" ELSE "undo"
                /\ UNCHANGED <<lvars, gvars, cvars, puzzle, steps, ret, dfs, z3>>

\* lines 208-212: a connect move
TryConnect ==
    /\ pc = "loop"
    /\ Top.i <= Len(Top.moves)
    /\ TopMove.kind = "connect"
    /\ LET color == Top.color
           head == heads[color][Top.head_idx + 1]
           other == heads[color][(1 - Top.head_idx) + 1]
           S1 == path_add_edge(St, color, head, other)
           S2 == [S1 EXCEPT !.done[color] = TRUE]
       IN  /\ Install(S2)
           /\ stack' = [stack EXCEPT ![Len(stack)].head = head,
                                     ![Len(stack)].other = other]
           /\ pc' = "search"
           /\ UNCHANGED <<lvars, gvars, cvars, puzzle, steps, ret, dfs, z3>>

\* lines 204-206: the extend move is taken back
UndoExtend ==
    /\ pc = "undo"
    /\ TopMove.kind = "extend"
    /\ LET color == Top.color
           S1 == [St EXCEPT !.heads[color][Top.head_idx + 1] = Top.prev_head]
           S2 == unassign_node(puzzle,
                     path_remove_edge(S1, color, Top.prev_head, TopMove.node),
                     color, TopMove.node)
       IN  IF S2.err # NoErr
           THEN DfsRaise(S2) /\ UNCHANGED <<lvars, gvars, cvars, puzzle, steps, stack, ret, z3>>
           ELSE /\ Install(S2)
                /\ stack' = [stack EXCEPT ![Len(stack)].i = @ + 1]
                /\ pc' = "loop"
                /\ UNCHANGED <<lvars, gvars, cvars, puzzle, steps, ret, dfs, z3>>

\* lines 214-215: the connect move is taken back
UndoConnect ==
    /\ pc = "undo"
    /\ TopMove.kind = "connect"
    /\ LET color == Top.color
           S1 == [St EXCEPT !.done[color] = FALSE]
           S2 == path_remove_edge(S1, color, Top.head, Top.other)
       IN  IF S2.err # NoErr
           THEN DfsRaise(S2) /\ UNCHANGED <<lvars, gvars, cvars, puzzle, steps, stack, ret, z3>>
           ELSE /\ Install(S2)
                /\ stack' = [stack EXCEPT ![Len(stack)].i = @ + 1]
                /\ pc' = "loop"
                /\ UNCHANGED <<lvars, gvars, cvars, puzzle, steps, ret, dfs, z3>>

\* line 217: the moves are used up, search() returns False
LoopEnd ==
    /\ pc = "loop"
    /\ Top.i > Len(Top.moves)
    /\ stack' = Pop
    /\ ret' = FALSE
    /\ pc' = "return"
    /\ UNCHANGED <<lvars, gvars, cvars, puzzle, assigned, tile_color_usage, path_adj, heads, done, steps, dfs, z3>>

\* lines 203 and 213: the inner call returned True, so does the caller
ReturnTrue ==
    /\ pc = "return"
    /\ stack # <<>>
    /\ ret
    /\ stack' = Pop
    /\ UNCHANGED <<lvars, gvars, cvars, puzzle, pc, assigned, tile_color_usage, path_adj, heads, done, steps,
                   ret, dfs, z3>>

\* lines 202 and 212: the inner call returned False, the move is taken back
ReturnFalse ==
    /\ pc = "return"
    /\ stack # <<>>
    /\ ~ret
    /\ pc' = "undo"
    /\ UNCHANGED <<lvars, gvars, cvars, puzzle, assigned, tile_color_usage, path_adj, heads, done, steps,
                   stack, ret, dfs, z3>>

\* lines 220-222: the outermost search() returned False
NoSolution ==
    /\ pc = "return"
    /\ stack = <<>>
    /\ ~ret
    /\ dfs' = [status |-> "nosol"]
    /\ pc' = "z3"
    /\ UNCHANGED <<lvars, gvars, cvars, puzzle, assigned, tile_color_usage, path_adj, heads, done, steps,
                   stack, ret, z3>>

\* paths[color] for every colour, or the first error of the walks
dfs_paths(p, S) ==
    [c \in terminal_colors(p) |->
        dfs_walk(S, c, terminal_pair(p, c)[2], <<terminal_pair(p, c)[1]>>, None,
                 terminal_pair(p, c)[1])]

\* lines 224-242: the outermost search() returned True
Reconstruct ==
    /\ pc = "return"
    /\ stack = <<>>
    /\ ret
    /\ LET walks == dfs_paths(puzzle, St)
       IN  dfs' = IF \E c \in DOMAIN walks : walks[c].err # NoErr
                  THEN [status |-> "error",
                        err |-> "ValueError: Cannot uniquely reconstruct path"]
                  ELSE [status |-> "result",
                        node_color |-> assigned,
                        paths |-> [c \in DOMAIN walks |-> walks[c].path]]
    /\ pc' = "z3"
    /\ UNCHANGED <<lvars, gvars, cvars, puzzle, assigned, tile_color_usage, path_adj, heads, done, steps,
                   stack, ret, z3>>

---------------------------------------------------------------------------
(* solver/z3_solver.py.  The decision procedure is outside the repository: *)
(* s.check() answers sat with any model of the constraints, unsat when     *)
(* there is none, or unknown.  col: node -> Int, dist[color]: node -> Int. *)

color_to_idx(p, c) == (CHOOSE i \in DOMAIN all_colors(p) : all_colors(p)[i] = c) - 1

idx_to_color(p, i) == all_colors(p)[i + 1]

\* lines 39-41: col[n] >= -1 and col[n] < k
col_range(p) == (-1)..(Len(all_colors(p)) - 1)

\* lines 44-46
z3_fill(p, col) ==
    p.fill => \A i \in DOMAIN p.tiles : \E n \in Range(p.tiles[i].nodes) : col[n] # -1

\* lines 49-55
z3_tile_exclusion(p, col) ==
    \A t \in DOMAIN p.tiles :
        LET tile_nodes == p.tiles[t].nodes
        IN  Len(tile_nodes) <= 1 \/
            \A i \in DOMAIN tile_nodes : \A j \in (i + 1)..Len(tile_nodes) :
                LET a == tile_nodes[i]
                    b == tile_nodes[j]
                IN  col[a] = -1 \/ col[b] = -1 \/ col[a] # col[b]

\* lines 58-61
z3_terminals_fixed(p, col) ==
    \A i \in DOMAIN p.terminals :
        /\ col[p.terminals[i].a] = color_to_idx(p, p.terminals[i].color)
        /\ col[p.terminals[i].b] = color_to_idx(p, p.terminals[i].color)

same_deg(p, col, n) == Cardinality({m \in neighbors(p.graph, n) : col[m] = col[n]})

\* lines 64-71
z3_degree(p, col) ==
    \A n \in NodeSet(p) :
        IF n \in terminal_nodes(p) THEN same_deg(p, col, n) = 1
        ELSE col[n] # -1 => same_deg(p, col, n) = 2

\* a plausible slip: the predecessor is not required to be one step nearer
z3_connectivity_any_pred(p, col, color, dist) ==
    LET ci == color_to_idx(p, color)
        start == terminal_pair(p, color)[1]
    IN  /\ \A n \in NodeSet(p) : /\ col[n] = ci => dist[n] >= 0
                                 /\ col[n] # ci => dist[n] = -1
        /\ dist[start] = 0
        /\ \A n \in NodeSet(p) \ {start} :
              IF neighbors(p.graph, n) # {}
              THEN col[n] = ci =>
                     /\ dist[n] >= 1
                     /\ \E m \in neighbors(p.graph, n) : col[m] = ci
              ELSE col[n] # ci

\* lines 76-97 for one colour
z3_connectivity(p, col, color, dist) ==
    LET ci == color_to_idx(p, color)
        start == terminal_pair(p, color)[1]
    IN  /\ \A n \in NodeSet(p) : /\ col[n] = ci => dist[n] >= 0
                                 /\ col[n] # ci => dist[n] = -1
        /\ dist[start] = 0
        /\ \A n \in NodeSet(p) \ {start} :
              IF neighbors(p.graph, n) # {}
              THEN col[n] = ci =>
                     /\ dist[n] >= 1
                     /\ \E m \in neighbors(p.graph, n) : col[m] = ci /\ dist[m] = dist[n] - 1
              ELSE col[n] # ci

\* The candidate witnesses for one colour: every value lines 82-85 and 94
\* leave open, up to the bound (a witness never needs a distance above
\* the number of nodes - 1).
dist_space(p, col, color) ==
    LET ci == color_to_idx(p, color)
        start == terminal_pair(p, color)[1]
        free == {n \in NodeSet(p) : col[n] = ci} \ {start}
        top == Cardinality(NodeSet(p)) - 1 + DistSlack
    IN  { [n \in NodeSet(p) |-> IF n \in free THEN f[n]
                                ELSE IF n = start /\ col[n] = ci THEN 0 ELSE -1] :
            f \in [free -> 1..top] }

\* the constraints on col alone, cheapest first
z3_col_constraints(p, col) ==
    /\ z3_terminals_fixed(p, col)
    /\ z3_tile_exclusion(p, col)
    /\ z3_fill(p, col)
    /\ z3_degree(p, col)

z3_has_witness(p, col, color) ==
    \E dist \in dist_space(p, col, color) : z3_connectivity(p, col, color, dist)

\* The candidate values of col: every value lines 39-41 and 58-61 leave
\* open (a terminal's variable is fixed to the index of its colour).
col_space(p) ==
    LET free == NodeSet(p) \ terminal_nodes(p)
        fixed(n) == color_to_idx(p,
                        p.terminals[CHOOSE i \in DOMAIN p.terminals :
                                        n \in {p.terminals[i].a, p.terminals[i].b}].color)
    IN  { [n \in NodeSet(p) |-> IF n \in free THEN f[n] ELSE fixed(n)] :
            f \in [free -> col_range(p)] }

\* line 99: the values of col in the models of the solver s
z3_models(p) ==
    { col \in col_space(p) :
        /\ z3_col_constraints(p, col)
        /\ \A color \in terminal_colors(p) : z3_has_witness(p, col, color) }

\* lines 108-115
z3_node_color(p, col) ==
    [n \in NodeSet(p) |-> IF col[n] = -1 THEN None ELSE idx_to_color(p, col[n])]

\* lines 137-150: the loop of _walk_path
RECURSIVE walk_loop(_, _, _, _, _, _, _)
walk_loop(p, node_color, color, goal, path, prev, cur) ==
    IF cur = goal THEN [err |-> NoErr, path |-> path]
    ELSE LET nexts == {nb \in neighbors(p.graph, cur) : nb # prev /\ node_color[nb] = color}
         IN  IF Cardinality(nexts) # 1
             THEN [err |-> "ValueError: Cannot uniquely reconstruct path"]
             ELSE IF Len(path) > Cardinality(NodeSet(p))
             THEN [err |-> "walk does not end"]
             ELSE LET nxt == CHOOSE n \in nexts : TRUE
                  IN  walk_loop(p, node_color, color, goal, Append(path, nxt), cur, nxt)

\* lines 125-152
walk_path(p, node_color, start, goal) ==
    IF node_color[start] = None THEN [err |-> "ValueError: Start terminal uncolored"]
    ELSE IF node_color[goal] # node_color[start]
         THEN [err |-> "ValueError: Terminal colors mismatch"]
    ELSE walk_loop(p, node_color, node_color[start], goal, <<start>>, None, start)

\* lines 103-104: no model
Z3Unsat ==
    /\ pc = "z3"
    /\ z3_models(puzzle) = {}
    /\ z3' = [status |-> "unsat"]
    /\ pc' = "end"
    /\ UNCHANGED <<lvars, gvars, cvars, puzzle, assigned, tile_color_usage, path_adj, heads, done, steps,
                   stack, ret, dfs>>

\* lines 106-122: some model, decoded and walked
Z3Sat ==
    /\ pc = "z3"
    /\ \E col \in z3_models(puzzle) :
          LET node_color == z3_node_color(puzzle, col)
              walks == [c \in terminal_colors(puzzle) |->
                           walk_path(puzzle, node_color, terminal_pair(puzzle, c)[1],
                                     terminal_pair(puzzle, c)[2])]
          IN  z3' = IF \E c \in DOMAIN walks : walks[c].err # NoErr
                    THEN [status |-> "error", col |-> col,
                          err |-> "ValueError: Cannot uniquely reconstruct path"]
                    ELSE [status |-> "result", col |-> col, node_color |-> node_color,
                          paths |-> [c \in DOMAIN walks |-> walks[c].path]]
    /\ pc' = "end"
    /\ UNCHANGED <<lvars, gvars, cvars, puzzle, assigned, tile_color_usage, path_adj, heads, done, steps,
                   stack, ret, dfs>>

\* lines 100-102: the decision procedure gives up (its timeout)
Z3Unknown ==
    /\ pc = "z3"
    /\ z3' = [status |-> "unknown"]
    /\ pc' = "end"
    /\ UNCHANGED <<lvars, gvars, cvars, puzzle, assigned, tile_color_usage, path_adj, heads, done, steps,
                   stack, ret, dfs>>

Next ==
    \/ DfsSetup
    \/ DfsTimeout
    \/ SearchEnter
    \/ TryExtend
    \/ TryConnect
    \/ UndoExtend
    \/ UndoConnect
    \/ LoopEnd
    \/ ReturnTrue
    \/ ReturnFalse
    \/ NoSolution
    \/ Reconstruct
    \/ Z3Unsat
    \/ Z3Sat
    \/ Z3Unknown

Spec == Init /\ [][Next]_vars

\* solve_with_dfs called on a puzzle, and once more on the same puzzle
AgainNext ==
    \/ DfsSetup
    \/ DfsTimeout
    \/ SearchEnter
    \/ TryExtend
    \/ TryConnect
    \/ UndoExtend
    \/ UndoConnect
    \/ LoopEnd
    \/ ReturnTrue
    \/ ReturnFalse
    \/ NoSolution
    \/ Reconstruct
    \/ SolveAgain

AgainSpec == Init /\ [][AgainNext]_vars

\* A.../..../..../...A, a board on which search() is entered more than
\* CheckEvery times
Grid4x4 ==
    << <<TokA, TokDot, TokDot, TokDot>>, <<TokDot, TokDot, TokDot, TokDot>>,
       <<TokDot, TokDot, TokDot, TokDot>>, <<TokDot, TokDot, TokDot, TokA>> >>

\* one call of solve_with_dfs, with a timeout or with timeout_ms = None, on
\* the puzzles of the model and on the long board
TimedInit ==
    /\ puzzle \in Puzzles \cup {from_flow_grid_tokens(gr, f).puzzle :
                                  gr \in Grids \cup {Grid4x4}, f \in BOOLEAN}
    /\ pc = "setup"
    /\ assigned = FreshState(puzzle).assigned
    /\ tile_color_usage = FreshState(puzzle).tile_color_usage
    /\ path_adj = FreshState(puzzle).path_adj
    /\ heads = FreshState(puzzle).heads
    /\ done = FreshState(puzzle).done
    /\ steps = 0
    /\ stack = <<>>
    /\ ret = FALSE
    /\ dfs = Pending
    /\ z3 = Pending
    /\ timeout_ms \in {None, <<DefaultTimeoutMs>>}
    /\ calls = 1
    /\ first = Pending
    /\ LoaderIdle
    /\ GraphIdle

TimedNext ==
    \/ DfsSetup
    \/ DfsTimeout
    \/ SearchEnter
    \/ TryExtend
    \/ TryConnect
    \/ UndoExtend
    \/ UndoConnect
    \/ LoopEnd
    \/ ReturnTrue
    \/ ReturnFalse
    \/ NoSolution
    \/ Reconstruct

TimedSpec == TimedInit /\ [][TimedNext]_vars

\* the call runs on: the interpreter takes the next step of the solver
\* whenever there is one
TimedFairSpec == TimedSpec /\ WF_vars(TimedNext)

---------------------------------------------------------------------------
(* The loaders on their own: one call of a space builder on a token grid.  *)

Tokens == {TokDot, TokHole, TokBridge, TokA, TokB}

\* the rectangular token grids of at most n cells
GridsUpTo(n) ==
    UNION { [1..h -> [1..w -> Tokens]] :
              <<h, w>> \in {hw \in (1..n) \X (1..n) : hw[1] * hw[2] <= n} }

\* grids no builder accepts: no rows, an empty row, ragged rows
BadGrids == { <<>>, << <<>> >>, << <<TokA, TokA>>, <<TokDot>> >>,
              << <<TokA>>, <<TokA, TokDot>> >> }

\* the token sequences of at most n tokens, for the 1D ring
TokenSeqsUpTo(n) == UNION { [1..k -> Tokens] : k \in 0..n }

BuilderInputs ==
    { [kind |-> k, token_rows |-> t] :
        k \in {"square", "hex", "circle", "circle_core"}, t \in GridsUpTo(MaxCells) \cup BadGrids }
    \cup { [kind |-> "ring", tokens |-> t] : t \in TokenSeqsUpTo(MaxCells) }

\* graph-mode JSON documents on the nodes n1, n2, n3, well-formed or not:
\* edges that Graph.add_edge refuses, tiles that miss a node, repeat a node
\* or name an unknown one, terminals that are absent, malformed, equal or
\* unknown (n9 is no node of the document)
JsonInputs ==
    LET n(i) == NodeN(i)
        tile(id, ns) == [id |-> id, nodes |-> ns]
        edgeLists == { <<>>, << <<n(1), n(2)>>, <<n(2), n(3)>> >>,
                       << <<n(1), n(1)>> >>, << <<n(1), n(9)>> >> }
        tileLists == { None,
                       << tile(n(1), <<n(1)>>), tile(<<116>>, <<n(2), n(3)>>) >>,
                       << tile(n(1), <<n(1)>>), tile(n(2), <<n(2)>>) >>,
                       << tile(n(1), <<n(1), n(2)>>), tile(n(2), <<n(2), n(3)>>) >>,
                       << tile(n(1), <<n(1), n(2)>>), tile(n(3), <<n(3), n(9)>>) >> }
        ends == {n(1), n(2), n(9)}
        termLists == { <<>>, << [color |-> TokA, pair |-> <<n(1)>>] >> }
                     \cup { << [color |-> TokA, pair |-> <<a, b>>] >> : a \in ends, b \in ends }
                     \cup { << [color |-> TokA, pair |-> <<n(1), n(2)>>],
                               [color |-> TokB, pair |-> <<n(3), b>>] >> : b \in {n(2), n(3)} }
    IN  { [kind |-> "json", obj |-> [nodes |-> <<n(1), n(2), n(3)>>, edges |-> e,
                                     tiles |-> t, terminals |-> ts, fill |-> f]] :
            e \in edgeLists, t \in tileLists, ts \in termLists, f \in BOOLEAN }


\* the lines of at most n characters over # space tab : A .
LinesUpTo(n) == UNION { [1..k -> {35, 32, 9, 58, 65, 46}] : k \in 0..n }

\* texts with directives, a comment, a blank line, rows that begin with #
DirectiveTexts ==
    { << <<35, 32, 116, 121, 112, 101, 58, 32, 104, 101, 120>>, <<65, 46, 65>> >>,
      << <<35, 116, 121, 112, 101, 58, 99, 105, 114, 99, 108, 101>>, <<35, 32, 99, 111, 114, 101, 58, 32, 121, 101, 115>>, <<65, 46, 65>> >>,
      << <<35, 32, 116, 121, 112, 101, 58, 32, 99, 105, 114, 99, 108, 101>>, <<65, 46, 65>> >>,
      << <<35, 32, 70, 105, 108, 108, 58, 32, 78, 79>>, <<65, 65>> >>,
      << <<35, 32, 116, 121, 112, 101, 58, 32, 116, 114, 105>>, <<65, 65>> >>,
      << <<35, 32, 97, 32, 110, 111, 116, 101>>, <<>>, <<65, 43, 65>> >>,
      << <<35, 65, 35>>, <<35, 65, 35>> >> }

\* .flow texts: one line of at most MaxLineLen characters, alone or
\* followed by the row AA, and the texts with directives
TextInputs ==
    { [kind |-> "text", text |-> t] :
        t \in { <<ln>> : ln \in LinesUpTo(MaxLineLen) }
             \cup { <<ln, <<65, 65>> >> : ln \in LinesUpTo(MaxLineLen) }
             \cup DirectiveTexts }

Inputs == BuilderInputs \cup JsonInputs \cup TextInputs

\* what a call left behind: the value it returned or the error it raised
Outcome(r) == [status |-> IF r.err = NoErr THEN "returned" ELSE "raised", value |-> r]

SolverIdle ==
    /\ puzzle = None
    /\ pc = "idle"
    /\ assigned = <<>>
    /\ tile_color_usage = <<>>
    /\ path_adj = <<>>
    /\ heads = <<>>
    /\ done = <<>>
    /\ steps = 0
    /\ stack = <<>>
    /\ ret = FALSE
    /\ dfs = Pending
    /\ z3 = Pending
    /\ timeout_ms = None
    /\ calls = 0
    /\ first = Pending

LoadInit ==
    /\ input \in Inputs
    /\ output = Pending
    /\ GraphIdle
    /\ SolverIdle

BuildSquare ==
    /\ input.kind = "square"
    /\ output = Pending
    /\ output' = Outcome(build_square_space_from_tokens(input.token_rows))
    /\ UNCHANGED <<svars, gvars, input>>

BuildHex ==
    /\ input.kind = "hex"
    /\ output = Pending
    /\ output' = Outcome(build_hex_space_from_tokens(input.token_rows))
    /\ UNCHANGED <<svars, gvars, input>>

BuildRing ==
    /\ input.kind = "ring"
    /\ output = Pending
    /\ output' = Outcome(build_circle_space_from_tokens(input.tokens))
    /\ UNCHANGED <<svars, gvars, input>>

BuildCircle ==
    /\ input.kind \in {"circle", "circle_core"}
    /\ output = Pending
    /\ output' = Outcome(build_circle_space_from_token_rows(input.token_rows,
                                                            input.kind = "circle_core"))
    /\ UNCHANGED <<svars, gvars, input>>

FromJson ==
    /\ input.kind = "json"
    /\ output = Pending
    /\ output' = Outcome(from_json(input.obj))
    /\ UNCHANGED <<svars, gvars, input>>

FromFlowText ==
    /\ input.kind = "text"
    /\ output = Pending
    /\ output' = Outcome(from_flow_text(input.text))
    /\ UNCHANGED <<svars, gvars, input>>

LoadNext ==
    \/ FromFlowText
    \/ FromJson
    \/ BuildSquare
    \/ BuildHex
    \/ BuildRing
    \/ BuildCircle

LoadSpec == LoadInit /\ [][LoadNext]_vars

---------------------------------------------------------------------------
(* graph.py on its own: a Graph object and a client that calls add_node,   *)
(* add_edge, remove_edge and edges() with any arguments, in any order.  A  *)
(* call that raises leaves the object as the code left it at the raise.    *)

GraphIds == {<<96 + i>> : i \in 1..MaxIds}

\* the record of a finished call: what was called, what it raised (NoErr
\* if it returned), and the object as it was before the call
Call(op, args, err) == [op |-> op, args |-> args, err |-> err, before |-> graph]

GraphInit ==
    /\ GraphIdle
    /\ LoaderIdle
    /\ SolverIdle

AddNode ==
    \E id \in GraphIds :
        LET g2 == add_node(graph, id)
        IN  /\ graph' = [g2 EXCEPT !.err = NoErr]
            /\ last' = Call("add_node", <<id>>, g2.err)
            /\ yielded' = <<>>
            /\ UNCHANGED <<svars, lvars, readded>>

AddEdge ==
    \E u \in GraphIds, v \in GraphIds :
        LET g2 == add_edge(graph, u, v)
        IN  /\ graph' = [g2 EXCEPT !.err = NoErr]
            /\ last' = Call("add_edge", <<u, v>>, g2.err)
            /\ yielded' = <<>>
            /\ readded' = IF g2.err = NoErr /\ v \in graph.adj[u]
                          THEN readded \cup {{u, v}} ELSE readded
            /\ UNCHANGED <<svars, lvars>>

RemoveEdge ==
    \E u \in GraphIds, v \in GraphIds :
        LET g2 == remove_edge(graph, u, v)
        IN  /\ graph' = [g2 EXCEPT !.err = NoErr]
            /\ last' = Call("remove_edge", <<u, v>>, g2.err)
            /\ yielded' = <<>>
            /\ readded' = IF g2.err = NoErr THEN readded \ {{u, v}} ELSE readded
            /\ UNCHANGED <<svars, lvars>>

Edges ==
    /\ yielded' \in edges(graph)
    /\ last' = Call("edges", <<>>, NoErr)
    /\ UNCHANGED <<svars, lvars, graph, readded>>

GraphNext ==
    \/ AddNode
    \/ AddEdge
    \/ RemoveEdge
    \/ Edges

GraphSpec == GraphInit /\ [][GraphNext]_vars

---------------------------------------------------------------------------
(* What the claims speak of *)

ColorNodes(nc, c) == {n \in DOMAIN nc : nc[n] = c}

\* the nodes of Within reachable from R inside Within
RECURSIVE ReachIn(_, _, _)
ReachIn(p, Within, R) ==
    LET R2 == R \cup {m \in Within : \E n \in R : m \in neighbors(p.graph, n)}
    IN  IF R2 = R THEN R ELSE ReachIn(p, Within, R2)

ConnectedIn(p, Within) ==
    Within = {} \/ ReachIn(p, Within, {CHOOSE n \in Within : TRUE}) = Within

ColorDegree(p, nc, n) == Cardinality({m \in neighbors(p.graph, n) : nc[m] = nc[n]})

\* invariant (a) of a SolveResult
InvA(p, nc) ==
    \A i \in DOMAIN p.terminals :
        nc[p.terminals[i].a] = p.terminals[i].color /\ nc[p.terminals[i].b] = p.terminals[i].color

\* invariant (b) of a SolveResult
InvB(p, nc) ==
    \A c \in terminal_colors(p) :
        /\ ConnectedIn(p, ColorNodes(nc, c))
        /\ \A n \in ColorNodes(nc, c) :
              ColorDegree(p, nc, n) = IF n \in Range(terminal_pair(p, c)) THEN 1 ELSE 2

\* invariant (c) of a SolveResult, on the paths
InvC(p, paths) ==
    \A c \in DOMAIN paths : \A d \in DOMAIN paths \ {c} :
        Range(paths[c]) \cap Range(paths[d]) = {}

\* invariant (d) of a SolveResult
InvD(p, nc) ==
    p.fill => \A i \in DOMAIN p.tiles : \E n \in Range(p.tiles[i].nodes) : nc[n] # None

ValidResult(p, r) ==
    InvA(p, r.node_color) /\ InvB(p, r.node_color) /\ InvC(p, r.paths) /\ InvD(p, r.node_color)

\* no colour on two nodes of one tile
TileExclusive(p, nc) ==
    \A i \in DOMAIN p.tiles : \A c \in terminal_colors(p) :
        Cardinality({n \in Range(p.tiles[i].nodes) : nc[n] = c}) <= 1

\* a simple path from cur to goal through exactly the nodes of rest
RECURSIVE HamFrom(_, _, _, _)
HamFrom(p, cur, goal, rest) ==
    IF rest = {} THEN cur = goal
    ELSE /\ cur # goal
         /\ \E m \in rest \cap neighbors(p.graph, cur) : HamFrom(p, m, goal, rest \ {m})

\* S is the node set of a simple path of the graph from a to b
IsPathNodeSet(p, S, a, b) == a \in S /\ b \in S /\ HamFrom(p, a, b, S \ {a})

\* the assignments node -> colour or None that give every terminal a colour
NodeColorings(p) ==
    LET free == NodeSet(p) \ terminal_nodes(p)
        fixed(n) == p.terminals[CHOOSE i \in DOMAIN p.terminals :
                                   n \in {p.terminals[i].a, p.terminals[i].b}].color
    IN  { [n \in NodeSet(p) |-> IF n \in free THEN f[n] ELSE fixed(n)] :
            f \in [free -> terminal_colors(p) \cup {None}] }

\* some colouring meets the invariants (a)-(d)
ValidColoringExists(p) ==
    \E nc \in NodeColorings(p) : InvA(p, nc) /\ InvD(p, nc) /\ InvB(p, nc)

\* a family of pairwise node-disjoint simple paths, one per colour between
\* its terminals, no colour on two nodes of a tile, every tile used if fill
PathFamilyExists(p) ==
    \E nc \in NodeColorings(p) :
        /\ InvA(p, nc)
        /\ TileExclusive(p, nc)
        /\ InvD(p, nc)
        /\ \A c \in terminal_colors(p) :
              IsPathNodeSet(p, ColorNodes(nc, c), terminal_pair(p, c)[1], terminal_pair(p, c)[2])

\* path is a sequence without repetition from a to b along edges of the graph
IsSimplePath(p, path, a, b) ==
    /\ Len(path) >= 1
    /\ path[1] = a
    /\ path[Len(path)] = b
    /\ \A i \in DOMAIN path : \A j \in DOMAIN path : i # j => path[i] # path[j]
    /\ \A i \in 1..(Len(path) - 1) : path[i + 1] \in neighbors(p.graph, path[i])

PathsWellFormed(p, r) ==
    \A c \in terminal_colors(p) :
        /\ c \in DOMAIN r.paths
        /\ IsSimplePath(p, r.paths[c], terminal_pair(p, c)[1], terminal_pair(p, c)[2])
        /\ Range(r.paths[c]) = ColorNodes(r.node_color, c)

ReconstructError == "ValueError: Cannot uniquely reconstruct path"

TrianglePuzzle(fill) == from_json(TriangleJson(fill)).puzzle
BridgePuzzle == from_flow_grid_tokens(GridBridge, TRUE).puzzle
Puzzle3x3 == from_flow_grid_tokens(Grid3x3, TRUE).puzzle

Z3Answered == z3.status \in {"result", "error", "unsat"}
DfsAnswered == dfs.status \in {"result", "error", "nosol"}

---------------------------------------------------------------------------
(* The claims *)

\* C1: every SolveResult of solve_with_dfs has, for each colour c, a
\* connected set of c-coloured nodes in which every non-terminal node has
\* exactly two c-coloured graph neighbours and each terminal exactly one.
C1_DfsResultShape ==
    dfs.status = "result" => InvB(puzzle, dfs.node_color)

\* C2: in every model of the constraints of solve_with_z3 the nodes of each
\* colour are exactly the nodes of one simple path between the colour's two
\* terminals (no coloured cycle, no component apart from the start).
C2_Z3ModelIsOnePath ==
    z3.status \in {"result", "error"} =>
        \A c \in terminal_colors(puzzle) :
            IsPathNodeSet(puzzle, {n \in NodeSet(puzzle) : z3.col[n] = color_to_idx(puzzle, c)},
                          terminal_pair(puzzle, c)[1], terminal_pair(puzzle, c)[2])

C2_Witness ==
    /\ z3.status = "result"
    /\ \E c \in DOMAIN z3.paths : Len(z3.paths[c]) >= 3
    /\ \E n \in NodeSet(puzzle) : z3.col[n] = -1

C4_DfsComplete ==
    dfs.status = "nosol" => ~PathFamilyExists(puzzle)

C4_Witness ==
    /\ dfs.status = "nosol"
    /\ steps > 3
    /\ Len(puzzle.terminals) = 2

\* C5: with fill, every tile holds a coloured node in every SolveResult of
\* either solver, and the search returns True only with all colours done
\* and every tile covered.
C5_FillCoverage ==
    /\ dfs.status = "result" => InvD(puzzle, dfs.node_color)
    /\ z3.status = "result" => InvD(puzzle, z3.node_color)
    /\ (pc = "return" /\ ret) =>
          /\ \A c \in terminal_colors(puzzle) : done[c]
          /\ InvD(puzzle, assigned)

C5_Witness ==
    /\ pc = "end"
    /\ puzzle.fill
    /\ dfs.status = "result"
    /\ z3.status = "result"
    /\ Len(puzzle.tiles) >= 3
    /\ \E i \in DOMAIN puzzle.tiles : Len(puzzle.tiles[i].nodes) = 2

\* C6: no colour is ever assigned to two nodes of one tile, in any state of
\* the DFS and in any SolveResult of either solver (two different colours
\* may share a tile).
C6_TileExclusion ==
    /\ TileExclusive(puzzle, assigned)
    /\ dfs.status = "result" => TileExclusive(puzzle, dfs.node_color)
    /\ z3.status = "result" => TileExclusive(puzzle, z3.node_color)

C6_Witness ==
    /\ pc = "loop"
    /\ \E i \in DOMAIN puzzle.tiles :
          \E a \in Range(puzzle.tiles[i].nodes) : \E b \in Range(puzzle.tiles[i].nodes) :
              /\ assigned[a] # None
              /\ assigned[b] # None
              /\ assigned[a] # assigned[b]

\* C7: in every SolveResult of either solver paths[c] is a sequence without
\* repetition from c's first terminal to its second along edges of the
\* graph, holding exactly the nodes coloured c; the reconstruction never
\* fails on a state the solver accepted.
C7_PathsWellFormed ==
    /\ dfs.status = "result" => PathsWellFormed(puzzle, dfs)
    /\ z3.status = "result" => PathsWellFormed(puzzle, z3)
    /\ dfs.status = "error" => dfs.err # ReconstructError
    /\ z3.status # "error"

C7_Witness ==
    /\ pc = "end"
    /\ dfs.status = "result"
    /\ z3.status = "result"
    /\ \E c \in DOMAIN dfs.paths : Len(dfs.paths[c]) >= 4
    /\ \E c \in DOMAIN z3.paths : Len(z3.paths[c]) >= 4

BridgeColors(nc) == {nc[h_id(1, 1)], nc[v_id(1, 1)]}

\* C9: on the 3x3 board A.B / .+. / B.A with fill, every SolveResult of
\* either solver colours both nodes of the centre bridge tile, one with A
\* and the other with B.
C9_BridgeScenario ==
    puzzle.tiles = BridgePuzzle.tiles /\ puzzle.terminals = BridgePuzzle.terminals
    /\ puzzle.fill =>
        /\ dfs.status = "result" => BridgeColors(dfs.node_color) = {TokA, TokB}
        /\ z3.status = "result" => BridgeColors(z3.node_color) = {TokA, TokB}

C9_Witness ==
    /\ puzzle = BridgePuzzle
    /\ dfs.status = "result"
    /\ z3.status = "result"
    /\ dfs.node_color[h_id(1, 1)] = TokA
    /\ z3.node_color[v_id(1, 1)] = TokA

\* C10: on the 3x3 board A.. / ... / ..A with fill each solver returns a
\* SolveResult, and it meets the invariants: an A path from "0,0" to "2,2"
\* with every tile covered.
C10_Scenario3x3 ==
    /\ (puzzle = Puzzle3x3 /\ DfsAnswered) =>
          /\ dfs.status = "result"
          /\ PathsWellFormed(puzzle, dfs)
          /\ ValidResult(puzzle, dfs)
    /\ (puzzle = Puzzle3x3 /\ Z3Answered) =>
          /\ z3.status = "result"
          /\ PathsWellFormed(puzzle, z3)
          /\ ValidResult(puzzle, z3)

---------------------------------------------------------------------------
(* The loaders *)

Built == output.status = "returned"

\* each colour is listed once, with two different node ids
TwoDistinctEnds(terminals) ==
    /\ \A i \in DOMAIN terminals : terminals[i].a # terminals[i].b
    /\ \A i \in DOMAIN terminals : \A j \in DOMAIN terminals :
          terminals[i].color = terminals[j].color => i = j

\* every terminal id is a node of the graph
TerminalsInGraph(g, terminals) ==
    \A i \in DOMAIN terminals : {terminals[i].a, terminals[i].b} \subseteq Range(g.nodes)

\* every node is in exactly one tile, once; every tile is non-empty and
\* holds nodes of the graph only
TilesPartition(g, tiles) ==
    /\ \A n \in Range(g.nodes) :
          Cardinality({<<i, k>> \in (DOMAIN tiles) \X (1..(Len(g.nodes) + 1)) :
                          k \in DOMAIN tiles[i].nodes /\ tiles[i].nodes[k] = n}) = 1
    /\ \A i \in DOMAIN tiles :
          /\ tiles[i].nodes # <<>>
          /\ Range(tiles[i].nodes) \subseteq Range(g.nodes)
    /\ \A i \in DOMAIN tiles : \A j \in DOMAIN tiles : tiles[i].id = tiles[j].id => i = j

\* C11: when a token-based builder (square, hex, 1D ring, 2D circle with or
\* without core) returns, each colour has two distinct terminal node ids,
\* every terminal id is a node of the graph, and the tiles partition the
\* nodes (bridge channels and the core node included, no tile empty).
C11_BuilderInvariants ==
    (Built /\ input.kind \in {"square", "hex", "ring", "circle", "circle_core"}) =>
        /\ TwoDistinctEnds(output.value.terminals)
        /\ TerminalsInGraph(output.value.graph, output.value.terminals)
        /\ TilesPartition(output.value.graph, output.value.tiles)

C11_Witness ==
    /\ Built
    /\ input.kind = "circle_core"
    /\ Len(output.value.terminals) = 2
    /\ CoreId \in Range(output.value.graph.nodes)

\* C12: Puzzle.from_json in graph mode returns only puzzles that meet the
\* Puzzle invariants: it raises when a terminal id is no node of the graph,
\* when the two endpoints of a colour are the same node, when there are no
\* terminals, or when the tiles given do not put every node in exactly one tile.
C12_FromJsonValidates ==
    (Built /\ input.kind = "json") =>
        LET p == output.value.puzzle
        IN  /\ TerminalsInGraph(p.graph, p.terminals)
            /\ \A i \in DOMAIN p.terminals : p.terminals[i].a # p.terminals[i].b
            /\ p.terminals # <<>>
            /\ TilesPartition(p.graph, p.tiles)

IsBuilderCall == input.kind \in {"square", "hex", "ring", "circle", "circle_core"}

\* the tokens handed to the builder, row after row
InputTokens == IF input.kind = "ring" THEN input.tokens ELSE Concat(input.token_rows)

Occurrences(seq, tok) == Cardinality({i \in DOMAIN seq : seq[i] = tok})

\* C13: a token-based builder raises, returning no graph, whenever some
\* uppercase letter occurs a number of times other than two or no letter
\* occurs at all; it returns only when every letter present occurs twice.
C13_TerminalCounts ==
    (IsBuilderCall /\ Built) =>
        /\ \E i \in DOMAIN InputTokens : IsTerminalTok(InputTokens[i])
        /\ \A i \in DOMAIN InputTokens :
              IsTerminalTok(InputTokens[i]) => Occurrences(InputTokens, InputTokens[i]) = 2

C13_Witness ==
    /\ IsBuilderCall
    /\ input.kind = "hex"
    /\ output.status = "raised"
    /\ output.value.err = "ValueError: Terminal must appear exactly twice"
    /\ Occurrences(InputTokens, TokA) = 3
    /\ Occurrences(InputTokens, TokB) = 0

\* C14: a '+' token is accepted by the square builder only: the hex builder
\* and both circle builders raise on tokens that contain '+' and build no graph.
C14_BridgeSquareOnly ==
    (input.kind \in {"hex", "ring", "circle", "circle_core"}
       /\ output # Pending
       /\ Occurrences(InputTokens, TokBridge) > 0) => output.status = "raised"

\* the class of a line as the format describes it, blanks before the '#'
\* left aside: a directive begins with '#' and has a colon in the rest, a
\* comment begins with '#' followed by whitespace and has no colon, any
\* other non-empty line is a grid row
ClaimedClass(ln) ==
    LET t == lstrip(ln)
    IN  IF strip(ln) = <<>> THEN "empty"
        ELSE IF Head(t) = 35 /\ 58 \in Range(Tail(t)) THEN "directive"
        ELSE IF Head(t) = 35 /\ Len(t) >= 2 /\ isspace(t[2]) THEN "comment"
        ELSE "grid"

TextDone == input.kind = "text" /\ output # Pending

\* C18: from_flow_text puts every non-empty line into exactly one class: a
\* directive when it begins with '#' and the rest has a colon, an ignored
\* comment when it begins with '#' followed by whitespace and has no colon,
\* a grid row otherwise; the grid rows kept are exactly the lines of the
\* last class.
C18_LineClasses ==
    TextDone =>
        /\ \A i \in DOMAIN input.text :
              line_class(input.text[i]) = ClaimedClass(input.text[i])
        /\ output.value.grid_lines =
              SelectSeq(input.text, LAMBDA ln : ClaimedClass(ln) = "grid")

\* the tokens of a grid row as the format describes them: split on
\* whitespace when the trimmed row holds a space or a tab, one token per
\* character otherwise
ClaimedTokens(row) ==
    IF \E c \in Range(strip(row)) : isspace(c)
    THEN split(strip(row)) ELSE list(strip(row))

\* C19: a grid row whose trimmed body holds a space or a tab is split on
\* whitespace, a row without whitespace is split into its characters, and
\* parsing fails when the rows differ in token count.
C19_Tokenization ==
    TextDone =>
        /\ output.value.token_rows =
              SelectSeq([i \in DOMAIN output.value.grid_lines |->
                            ClaimedTokens(output.value.grid_lines[i])],
                        LAMBDA r : r # <<>>)
        /\ (\E i, j \in DOMAIN output.value.token_rows :
               Len(output.value.token_rows[i]) # Len(output.value.token_rows[j]))
              => output.status = "raised"

---------------------------------------------------------------------------
(* The Graph class *)

\* C15: after any sequence of add_node, add_edge and remove_edge calls,
\* failed ones included, the graph has no self-loop, every node in an
\* adjacency set is a node of the graph, and adjacency is symmetric.
C15_GraphInvariants ==
    /\ DOMAIN graph.adj = Range(graph.nodes)
    /\ \A u \in DOMAIN graph.adj :
          /\ u \notin graph.adj[u]
          /\ graph.adj[u] \subseteq Range(graph.nodes)
          /\ \A v \in graph.adj[u] : u \in graph.adj[v]

C15_Witness ==
    /\ last.op = "remove_edge"
    /\ last.err = NoErr
    /\ last.args[2] \in last.before.adj[last.args[1]]
    /\ \E u \in DOMAIN graph.adj : graph.adj[u] # {}
    /\ Len(graph.nodes) = 3

\* C16: add_node with an id already present, and add_edge with u = v or
\* with an endpoint that is no node, raise and leave the node map and every
\* adjacency set as they were before the call.
C16_FailedCallsChangeNothing ==
    /\ (last.op = "add_node" /\ last.args[1] \in Range(last.before.nodes)) => last.err # NoErr
    /\ (last.op = "add_edge" /\ (last.args[1] = last.args[2]
                                   \/ last.args[1] \notin Range(last.before.nodes)
                                   \/ last.args[2] \notin Range(last.before.nodes)))
          => last.err # NoErr
    /\ (last.op \in {"add_node", "add_edge"} /\ last.err # NoErr) =>
          /\ graph.nodes = last.before.nodes
          /\ graph.adj = last.before.adj

C16_Witness ==
    /\ last.op = "add_edge"
    /\ last.err # NoErr
    /\ last.args[1] \in Range(graph.nodes)
    /\ last.args[2] \notin Range(graph.nodes)
    /\ graph.adj[last.args[1]] # {}

\* the pair p comes before the pair q, comparing first then second ids
PairLess(p, q) == StrLess(p[1], q[1]) \/ (p[1] = q[1] /\ StrLess(p[2], q[2]))

\* C17: Graph.edges() yields every undirected edge exactly once, also when
\* the edge was added several times or in both orientations, and yields
\* the pairs in lexicographic order of the node ids.
C17_EdgesOnceInOrder ==
    last.op = "edges" =>
        /\ \A u \in DOMAIN graph.adj : \A v \in graph.adj[u] :
              Cardinality({i \in DOMAIN yielded : {yielded[i][1], yielded[i][2]} = {u, v}}) = 1
        /\ \A i \in DOMAIN yielded : yielded[i][2] \in graph.adj[yielded[i][1]]
        /\ \A i \in 1..(Len(yielded) - 1) : PairLess(yielded[i], yielded[i + 1])

---------------------------------------------------------------------------
(* Successive solves *)

\* a call of solve_with_dfs is about to start on nothing but the puzzle
StartsFresh ==
    /\ \A n \in DOMAIN assigned : assigned[n] = None
    /\ DOMAIN assigned = NodeSet(puzzle)
    /\ \A t \in DOMAIN tile_color_usage : tile_color_usage[t] = {}
    /\ DOMAIN tile_color_usage = tile_ids(puzzle)
    /\ DOMAIN path_adj = {}
    /\ DOMAIN heads = {}
    /\ DOMAIN done = {}
    /\ steps = 0
    /\ stack = <<>>

\* C20: solve_with_dfs never changes the puzzle, whatever the outcome
\* (result, no solution, error, timeout); every call starts from search
\* state created anew, so a second call on the same puzzle starts as the
\* first did and, unless one of the two timed out, ends as the first did.
C20_SolveLeavesInput ==
    /\ [][puzzle' = puzzle]_vars
    /\ [](pc = "setup" => StartsFresh)
    /\ []((calls = 2 /\ dfs.status \in {"result", "error", "nosol"}
              /\ first.status # "timeout") => dfs = first)

C20_Witness ==
    /\ calls = 2
    /\ first.status = "result"
    /\ dfs = first
    /\ Len(all_colors(puzzle)) >= 2
    /\ \E t \in DOMAIN tile_color_usage : Cardinality(tile_color_usage[t]) = 2

\* C21: two runs of solve_with_dfs on the same puzzle, neither timing out,
\* end with the same outcome (the same node_color and paths, the same
\* error, or both without solution), whatever order the per-colour
\* adjacency sets are iterated in during either run.
C21_Deterministic ==
    (calls = 2 /\ first.status # "timeout" /\ dfs.status \notin {"pending", "timeout"}) =>
        /\ dfs.status = first.status
        /\ dfs.status = "result" =>
              /\ dfs.node_color = first.node_color
              /\ dfs.paths = first.paths
        /\ dfs.status = "error" => dfs.err = first.err

C21_Witness ==
    /\ calls = 2
    /\ first.status = "result"
    /\ dfs.status = "result"
    /\ steps >= 6
    /\ \E c \in DOMAIN path_adj : \E n \in DOMAIN path_adj[c] :
          /\ Cardinality(path_adj[c][n]) = 2
          /\ \E h \in Range(heads[c]) : h \notin path_adj[c][n] /\ h \in neighbors(puzzle.graph, n)

---------------------------------------------------------------------------
(* The search *)

\* C22: a DFS timeout is raised only where the time is looked at, before
\* the first search() and at an entry of search() whose step count is a
\* multiple of 1000, and never with timeout_ms = None; once raised it ends
\* the call at whatever depth the recursion stands, and the outcome is the
\* timeout error, neither a result nor 'no solution'.
C22_Timeout ==
    /\ [](dfs.status = "timeout" =>
            /\ timeout_ms # None
            /\ steps % CheckEvery = 0
            /\ pc = "z3")
    /\ [][(dfs.status # "timeout" /\ dfs'.status = "timeout") =>
            /\ pc = "search"
            /\ steps' = 0 \/ (steps' = steps + 1 /\ steps' % CheckEvery = 0)
            /\ stack' = stack]_vars
    /\ [][dfs.status = "timeout" => dfs' = dfs]_vars

C22_Witness ==
    /\ dfs.status = "timeout"
    /\ steps = CheckEvery
    /\ Len(stack) >= 3

\* the colours not yet done in the current search state
Undone == {c \in DOMAIN done : ~done[c]}

\* C23: when search() is entered in a state where some undone colour has a
\* head without any available move, it fails there and tries no move: no
\* frame of the move loop stands on such a state.
C23_FailFast ==
    (pc = "loop" /\ Top.i = 1) =>
        \A c \in Undone : \A h \in {0, 1} : available_moves(puzzle, St, c, h) # <<>>

\* C24: the moves of the (colour, head) chosen at a search state are tried
\* with every connect move before any extend move, and the extend moves in
\* order of increasing graph degree of their target node.
C24_MoveOrder ==
    \A f \in DOMAIN stack : \A i, j \in DOMAIN stack[f].moves :
        i < j =>
            LET a == stack[f].moves[i]
                b == stack[f].moves[j]
            IN  /\ ~(a.kind = "extend" /\ b.kind = "connect")
                /\ (a.kind = "extend" /\ b.kind = "extend") =>
                      node_degree(puzzle, a.node) <= node_degree(puzzle, b.node)

\* the number of available moves of head h of colour c in the current state
MoveCount(c, h) == Len(available_moves(puzzle, St, c, h))

\* C25: where search() does not fail it branches on one (colour, head)
\* pair, one with the fewest available moves among the pairs of undone
\* colours that have a move; the moves it tries there are all the moves of
\* that pair, and every move it makes is one of them.
C25_FewestMovesFirst ==
    /\ [](pc = "loop" /\ Top.i = 1 =>
            /\ Top.color \in Undone
            /\ Len(Top.moves) = MoveCount(Top.color, Top.head_idx)
            /\ Range(Top.moves) = Range(available_moves(puzzle, St, Top.color, Top.head_idx))
            /\ \A c \in Undone : \A h \in {0, 1} :
                  MoveCount(c, h) > 0 => Len(Top.moves) <= MoveCount(c, h))
    /\ [][(pc = "loop" /\ pc' \in {"search", "undo"}) =>
            /\ Top.i \in DOMAIN Top.moves
            /\ \A c \in DOMAIN heads : \A k \in {1, 2} :
                  heads'[c][k] # heads[c][k] =>
                      /\ c = Top.color
                      /\ k = Top.head_idx + 1
                      /\ heads'[c][k] = TopMove.node
            /\ \A n \in DOMAIN assigned :
                  assigned'[n] # assigned[n] =>
                      /\ n = TopMove.node
                      /\ assigned'[n] = Top.color
            /\ \A c \in DOMAIN done : done'[c] # done[c] => c = Top.color]_vars

C25_Witness ==
    /\ pc = "loop"
    /\ Top.i = 1
    /\ Len(stack) >= 2
    /\ \E c \in Undone :
          /\ StrLess(c, Top.color)
          /\ MoveCount(c, 0) > Len(Top.moves)
          /\ MoveCount(c, 1) > Len(Top.moves)

\* the nodes colour c may use in the current state: unassigned with c not
\* in the tile's colour set, or assigned to c
Usable(c) ==
    {n \in DOMAIN assigned :
        \/ assigned[n] = None /\ c \notin tile_color_usage[node_to_tile(puzzle, n)]
        \/ assigned[n] = c}

\* the graph has a path between the two heads of c through usable nodes
ResidualReach(c) == heads[c][2] \in ReachIn(puzzle, Usable(c), {heads[c][1]})

\* the usable nodes reached from R when a node of c that is not a head is
\* left only along the edges recorded for c, any other node along the
\* edges of the graph
RECURSIVE FollowIn(_, _)
FollowIn(c, R) ==
    LET out(n) == IF assigned[n] = c /\ n \notin Range(heads[c])
                  THEN (IF n \in DOMAIN path_adj[c] THEN path_adj[c][n] ELSE {})
                  ELSE neighbors(puzzle.graph, n)
        R2 == R \cup {m \in Usable(c) : \E n \in R : m \in out(n)}
    IN  IF R2 = R THEN R ELSE FollowIn(c, R2)

RecordedReach(c) == heads[c][2] \in FollowIn(c, {heads[c][1]})

\* the solver stands right behind an extend move: the move was just made, or
\* the search below it has failed and the move is about to be taken back
AfterExtend == pc \in {"search", "undo"} /\ stack # <<>> /\ TopMove.kind = "extend"

---------------------------------------------------------------------------
(* Adjacency of the square space *)

\* the four directions: step in x, step in y, port left, port entered
Directions == { <<1, 0, "E", "W">>, <<-1, 0, "W", "E">>, <<0, 1, "S", "N">>, <<0, -1, "N", "S">> }

\* a non-hole cell of the grid
IsCell(rows, x, y) ==
    /\ y \in 0..(Len(rows) - 1)
    /\ x \in 0..(Len(rows[1]) - 1)
    /\ rows[y + 1][x + 1] # TokHole

\* the node behind port d of cell (x, y): the horizontal channel of a bridge
\* for E and W, its vertical channel for N and S, the single node otherwise
PortNode(rows, x, y, d) ==
    IF rows[y + 1][x + 1] # TokBridge THEN cell_id(x, y)
    ELSE IF d \in {"E", "W"} THEN cell_id(x, y) \o <<58, 104>>
    ELSE cell_id(x, y) \o <<58, 118>>

\* u and v are the facing ports of two orthogonally neighbouring cells
FacingPorts(rows, u, v) ==
    \E y \in 0..(Len(rows) - 1) : \E x \in 0..(Len(rows[1]) - 1) : \E d \in Directions :
        /\ IsCell(rows, x, y)
        /\ IsCell(rows, x + d[1], y + d[2])
        /\ u = PortNode(rows, x, y, d[3])
        /\ v = PortNode(rows, x + d[1], y + d[2], d[4])

\* the nodes of the cells next to (x, y) in the directions ds
NodesBeside(rows, x, y, ds) ==
    {PortNode(rows, x + d[1], y + d[2], d[4]) :
        d \in {d \in Directions : d[3] \in ds /\ IsCell(rows, x + d[1], y + d[2])}}

\* C27: in the graph build_square_space_from_tokens returns, two nodes are
\* adjacent exactly when they are the facing ports of orthogonally
\* neighbouring non-hole cells (E and W of a bridge lead to its horizontal
\* node, N and S to its vertical node); the two nodes of a bridge are never
\* adjacent, the horizontal node has neighbours only in the cells to the
\* west and east, the vertical node only in the cells to the north and south.
C27_SquareAdjacency ==
    (Built /\ input.kind = "square") =>
        LET rows == input.token_rows
            g    == output.value.graph
        IN  /\ \A u \in Range(g.nodes) : \A v \in Range(g.nodes) :
                  v \in neighbors(g, u) <=> FacingPorts(rows, u, v)
            /\ \A y \in 0..(Len(rows) - 1) : \A x \in 0..(Len(rows[1]) - 1) :
                  rows[y + 1][x + 1] = TokBridge =>
                      LET h == PortNode(rows, x, y, "E")
                          v == PortNode(rows, x, y, "N")
                      IN  /\ h \notin neighbors(g, v)
                          /\ v \notin neighbors(g, h)
                          /\ neighbors(g, h) \subseteq NodesBeside(rows, x, y, {"E", "W"})
                          /\ neighbors(g, v) \subseteq NodesBeside(rows, x, y, {"N", "S"})

\* a bridge with a neighbour on its horizontal and one on its vertical node
C27_Witness ==
    /\ Built
    /\ input.kind = "square"
    /\ \E y \in 0..(Len(input.token_rows) - 1) : \E x \in 0..(Len(input.token_rows[1]) - 1) :
          /\ input.token_rows[y + 1][x + 1] = TokBridge
          /\ neighbors(output.value.graph, PortNode(input.token_rows, x, y, "E")) # {}
          /\ neighbors(output.value.graph, PortNode(input.token_rows, x, y, "N")) # {}

---------------------------------------------------------------------------
(* Builders and the invariants of Graph *)

\* the failures of Graph.add_node and Graph.add_edge
GraphFailures == {"ValueError: self-loop", "ValueError: node exists", "KeyError: unknown endpoint"}

\* the input of the builder is non-empty and rectangular
RectangularInput ==
    IF input.kind = "ring" THEN input.tokens # <<>>
    ELSE /\ input.token_rows # <<>>
         /\ input.token_rows[1] # <<>>
         /\ \A i \in DOMAIN input.token_rows : Len(input.token_rows[i]) = Len(input.token_rows[1])

\* C28: on a non-empty rectangular input (a single sector included) no
\* builder raises a failure of Graph (self-loop, duplicate node, unknown
\* endpoint), and in the circle spaces a builder returns a graph in which
\* sector x is adjacent to sector (x + 1) mod width within each ring.
C28_NoGraphFailure ==
    (IsBuilderCall /\ RectangularInput /\ output # Pending) =>
        /\ output.status = "raised" => output.value.err \notin GraphFailures
        /\ (Built /\ input.kind = "ring") =>
              \A k \in 0..(Len(input.tokens) - 1) :
                  LET n == Len(input.tokens)
                  IN  (input.tokens[k + 1] # TokHole /\ input.tokens[((k + 1) % n) + 1] # TokHole)
                          => str((k + 1) % n) \in neighbors(output.value.graph, str(k))
        /\ (Built /\ input.kind \in {"circle", "circle_core"}) =>
              LET rows  == input.token_rows
                  width == Len(rows[1])
              IN  \A y \in 0..(Len(rows) - 1) : \A x \in 0..(width - 1) :
                      (rows[y + 1][x + 1] # TokHole /\ rows[y + 1][((x + 1) % width) + 1] # TokHole)
                          => cell_id((x + 1) % width, y) \in neighbors(output.value.graph, cell_id(x, y))

---------------------------------------------------------------------------
(* Backtracking *)

\* the state in which the call of search() below the k-th active frame was
\* entered: the state after the terminals were set up, followed by the move
\* each of the frames 1..k is trying
RECURSIVE EntryState(_)
EntryState(k) ==
    IF k = 0 THEN setup_terminals(puzzle, FreshState(puzzle), 1)
    ELSE LET S    == EntryState(k - 1)
             f    == stack[k]
             mv   == f.moves[f.i]
             head == S.heads[f.color][f.head_idx + 1]
         IN  IF mv.kind = "extend"
             THEN [path_add_edge(assign_node(puzzle, S, f.color, mv.node), f.color, head, mv.node)
                      EXCEPT !.heads[f.color][f.head_idx + 1] = mv.node]
             ELSE [path_add_edge(S, f.color, head, S.heads[f.color][(1 - f.head_idx) + 1])
                      EXCEPT !.done[f.color] = TRUE]

\* the edges recorded per colour, entries with no neighbour left aside
RecordedEdges(S) ==
    UNION { UNION { { <<c, u, v>> : v \in S.path_adj[c][u] } : u \in DOMAIN S.path_adj[c] }
            : c \in DOMAIN S.path_adj }

SameState(S, E) ==
    /\ S.assigned = E.assigned
    /\ S.tile_color_usage = E.tile_color_usage
    /\ S.heads = E.heads
    /\ S.done = E.done
    /\ RecordedEdges(S) = RecordedEdges(E)

\* C29: a call of search() is entered in the state its callers' moves
\* produce, and when it returns False, or is back at its loop after taking a
\* move back, the assigned map, the tile colour usage, the heads and the
\* done flags have exactly these values again and the recorded adjacency
\* holds exactly these edges (empty entries aside); no terminal node is
\* ever unassigned.
C29_BacktrackRestores ==
    /\ (pc = "search" \/ (pc = "return" /\ ~ret)) => SameState(St, EntryState(Len(stack)))
    /\ pc = "loop" => SameState(St, EntryState(Len(stack) - 1))
    /\ pc \in {"search", "loop", "undo", "return"} =>
          \A i \in DOMAIN puzzle.terminals :
              /\ assigned[puzzle.terminals[i].a] = puzzle.terminals[i].color
              /\ assigned[puzzle.terminals[i].b] = puzzle.terminals[i].color
    /\ dfs.status = "error" => dfs.err # "AssertionError: unassign a terminal node"

\* a call two levels down has failed after taking back two moves or more,
\* and an entry of the recorded adjacency is gone that was there at entry
C29_Witness ==
    /\ pc = "return"
    /\ ~ret
    /\ Len(stack) >= 2
    /\ steps >= 5
    /\ path_adj # EntryState(Len(stack)).path_adj

---------------------------------------------------------------------------
(* Termination *)

\* the calls of search() that are active: one per frame at its loop, and the
\* one just entered or just returning
Depth == Len(stack) + (IF pc \in {"search", "return"} THEN 1 ELSE 0)

\* a step of the loop of search() that makes a move
MakesMove == pc = "loop" /\ pc' \in {"search", "undo"}

\* C30: with timeout_ms = None solve_with_dfs ends, after finitely many
\* steps, with a SolveResult or with the 'no solution' error; every move
\* assigns a node that was unassigned or marks a colour done, and the
\* depth of the recursion never exceeds nodes + colours + 1.
C30_Terminates ==
    /\ [](timeout_ms = None => dfs.status \in {"pending", "result", "nosol"})
    /\ (timeout_ms = None => <>(dfs.status \in {"result", "nosol"}))
    /\ [][MakesMove =>
            \/ \E n \in DOMAIN assigned : assigned[n] = None /\ assigned'[n] # None
            \/ \E c \in DOMAIN done : ~done[c] /\ done'[c]]_vars
    /\ [](Depth <= Cardinality(NodeSet(puzzle)) + Len(all_colors(puzzle)) + 1)

=============================================================================
